---- MODULE Spec2Model ----
(***************************************************************************)
(* A model of the on-disk index of leann-rs: the PassageStore (JSONL plus  *)
(* offset map), the ids file, the embeddings file, the backend graph file  *)
(* and the IndexMeta sidecar, as they are written by the streaming         *)
(* builder, the build / update / prune commands, and read by the           *)
(* searchers.                                                              *)
(***************************************************************************)
EXTENDS Integers, Sequences, FiniteSets, TLC

VARIABLES
    disk,      \* the files of one index directory
    wpc,       \* position of the single writer (builder or updater)
    w,         \* the writer's in-memory state (StreamingIndexBuilder / update run)
    call,      \* the last operation and what it returned
    hist       \* history of the run: what was written, what was there before

vars == <<disk, wpc, w, call, hist>>

----------------------------------------------------------------------------
(* Bounds of the model *)

\* embedding dimensions reported by the embedding provider
Dim == 2
\* chunks one build command may add
MaxBuildChunks == 2
\* passages an index may hold after updates
MaxPassages == 3
\* commands that write to the index directory in one run of the model
MaxRuns == 3

----------------------------------------------------------------------------
(* Values *)

\* the bytes serde_json adds around id, text and metadata of a Passage:
\* {"id":" + ","text":" + ","metadata": + }
JsonOverhead == 31

NL == "\n"

Digit == <<"0", "1", "2", "3", "4", "5", "6", "7", "8", "9">>

RECURSIVE ToStr(_)
\* u64::to_string / usize::to_string
ToStr(n) ==
    IF n < 10 THEN Digit[n + 1]
    ELSE ToStr(n \div 10) \o Digit[(n % 10) + 1]

\* a vector of length d with a 1 at position k
Unit(d, k) == [i \in 1..d |-> IF i = k THEN 1 ELSE 0]

\* what a chunk carries besides its id: text, metadata and the embedding the
\* provider computes for the text
ChunkInputs ==
    { [text |-> "a",  metadata |-> "{}",   emb |-> Unit(Dim, 1)],
      [text |-> "bb", metadata |-> "null", emb |-> Unit(Dim, 2)] }

EmptyMap == [x \in {} |-> 0]

NoPassage == [id |-> "", text |-> "", metadata |-> ""]

----------------------------------------------------------------------------
(* Files.  Every file is a record with an `exists' flag; its content is    *)
(* kept at the granularity the readers parse it at.                        *)

NoJsonl == [exists |-> FALSE, lines |-> <<>>]
NoIdx   == [exists |-> FALSE, complete |-> FALSE, map |-> EmptyMap]
NoIds   == [exists |-> FALSE, toks |-> <<>>]
NoEmb   == [exists |-> FALSE, data |-> <<>>]
NoIndex == [exists |-> FALSE, vecs |-> EmptyMap]
NoMetaRec ==
    [version |-> "", backend_name |-> "", embedding_mode |-> "",
     dimensions |-> 0, passage_count |-> 0,
     is_recompute |-> FALSE, is_pruned |-> FALSE]
NoMeta  == [exists |-> FALSE, m |-> NoMetaRec]

EmptyDisk ==
    [dir |-> FALSE, jsonl |-> NoJsonl, idx |-> NoIdx, ids |-> NoIds,
     emb |-> NoEmb, index |-> NoIndex, diskann |-> NoIndex, meta |-> NoMeta]

----------------------------------------------------------------------------
(* PassageStore: <base>.passages.jsonl and <base>.passages.idx.json        *)

\* serde_json::to_string(passage).len()
JsonLen(p) == JsonOverhead + Len(p.id) + Len(p.text) + Len(p.metadata)

RECURSIVE FileSize(_)
\* size in bytes of a JSONL file holding these lines, each ended by "\n"
FileSize(lines) ==
    IF lines = <<>> THEN 0
    ELSE JsonLen(Head(lines)) + 1 + FileSize(Tail(lines))

\* the byte offset at which line i (1-based) starts
LineStart(lines, i) == FileSize(SubSeq(lines, 1, i - 1))

\* seek(offset), read_line, serde_json::from_str: a passage comes back only
\* when the offset is the first byte of a line
ReadLineAt(lines, offset) ==
    IF \E i \in 1..Len(lines) : LineStart(lines, i) = offset
    THEN [ok |-> TRUE,
          passage |-> lines[CHOOSE i \in 1..Len(lines) : LineStart(lines, i) = offset]]
    ELSE [ok |-> FALSE, passage |-> NoPassage]

\* PassageStore::create: the JSONL file is created (truncated); the offset
\* map file is not touched
PassageStoreCreate(d) ==
    [disk |-> [d EXCEPT !.jsonl = [exists |-> TRUE, lines |-> <<>>]],
     pw   |-> [offsets |-> EmptyMap, current_offset |-> 0, buf |-> <<>>]]

\* read_to_string(idx_path) and serde_json::from_str: fails when the file is
\* missing or does not hold one complete JSON object
LoadOffsets(d) ==
    IF d.idx.exists /\ d.idx.complete
    THEN [ok |-> TRUE, offsets |-> d.idx.map]
    ELSE [ok |-> FALSE, offsets |-> EmptyMap]

\* PassageStore::open
PassageStoreOpen(d) == LoadOffsets(d)

\* PassageStore::open_for_append
PassageStoreOpenForAppend(d) ==
    IF LoadOffsets(d).ok /\ d.jsonl.exists
    THEN [ok |-> TRUE,
          pw |-> [offsets |-> LoadOffsets(d).offsets,
                  current_offset |-> FileSize(d.jsonl.lines),
                  buf |-> <<>>]]
    ELSE [ok |-> FALSE,
          pw |-> [offsets |-> EmptyMap, current_offset |-> 0, buf |-> <<>>]]

\* PassageStore::get
PassageStoreGet(d, offsets, id) ==
    IF id \notin DOMAIN offsets \/ ~d.jsonl.exists
    THEN [ok |-> FALSE, passage |-> NoPassage]
    ELSE ReadLineAt(d.jsonl.lines, offsets[id])

\* PassageStoreWriter::add: records the offset, buffers the line, advances
\* the offset; it has no failing path besides I/O
WriterAdd(pw, passage) ==
    [ok |-> TRUE,
     pw |-> [offsets |-> (passage.id :> pw.current_offset) @@ pw.offsets,
             current_offset |-> pw.current_offset + JsonLen(passage) + 1,
             buf |-> Append(pw.buf, passage)]]

\* BufWriter::flush (also done by BufWriter when its buffer runs full and
\* when it is dropped): the buffered lines reach the file
FlushJsonl(d, pw) ==
    [disk |-> [d EXCEPT !.jsonl.lines = @ \o pw.buf],
     pw   |-> [pw EXCEPT !.buf = <<>>]]

\* std::fs::write, first half: the file is opened with create + truncate
TruncateIdx(d) ==
    [d EXCEPT !.idx = [exists |-> TRUE, complete |-> FALSE, map |-> EmptyMap]]

\* std::fs::write, second half: the serialized offsets are written
WriteIdx(d, pw) ==
    [d EXCEPT !.idx = [exists |-> TRUE, complete |-> TRUE, map |-> pw.offsets]]

----------------------------------------------------------------------------
(* ids file and embeddings file *)

RECURSIVE LinesFrom(_, _, _)
LinesFrom(toks, cur, started) ==
    IF toks = <<>> THEN (IF started THEN <<cur>> ELSE <<>>)
    ELSE IF Head(toks) = NL
         THEN <<cur>> \o LinesFrom(Tail(toks), "", FALSE)
         ELSE LinesFrom(Tail(toks), cur \o Head(toks), TRUE)

\* str::lines() over the content of the ids file
Lines(toks) == LinesFrom(toks, "", FALSE)

\* how IndexSearcher::load and RecomputeSearcher::load get the id map
\* (without an ids file the ids of the offset map are taken, in the order the
\* HashMap yields them)
LoadIdMap(d, offsets) ==
    IF d.ids.exists THEN Lines(d.ids.toks)
    ELSE CHOOSE s \in [1..Cardinality(DOMAIN offsets) -> DOMAIN offsets] :
             \A id \in DOMAIN offsets : \E i \in DOMAIN s : s[i] = id

\* EmbeddingsStore::open: count = file size / (dimensions * 4)
EmbRows(d, dimensions) == Len(d.emb.data) \div dimensions

\* EmbeddingsStore::get
EmbRow(d, dimensions, i) ==
    SubSeq(d.emb.data, i * dimensions + 1, (i + 1) * dimensions)

\* prune_embeddings
PruneEmbeddings(d) ==
    IF d.emb.exists THEN [d EXCEPT !.emb = NoEmb] ELSE d

----------------------------------------------------------------------------
(* AnnBackend (HNSW through usearch): <base>.index                         *)

\* a build_index that numbers its labels from 1: C6 must tell it apart
BuildIndexFromOne(d, embeddings) ==
    [d EXCEPT !.index =
        [exists |-> TRUE,
         vecs   |-> [l \in 1..Len(embeddings) |-> embeddings[l]]]]

\* hnsw::build_index: vector i is added under label i, then the index is saved
BuildIndex(d, embeddings) ==
    [d EXCEPT !.index =
        [exists |-> TRUE,
         vecs   |-> [l \in 0..(Len(embeddings) - 1) |-> embeddings[l + 1]]]]

\* hnsw::add_to_index: the saved index is loaded, vector i is added under
\* label start_id + i (a label already present is refused, multi = false),
\* and the index is saved; an error leaves the file as it was
AddToIndex(d, embeddings, start_id) ==
    LET new == {start_id + i - 1 : i \in 1..Len(embeddings)} IN
    IF ~d.index.exists \/ (new \cap DOMAIN d.index.vecs) # {}
    THEN [ok |-> FALSE, disk |-> d]
    ELSE [ok |-> TRUE,
          disk |-> [d EXCEPT !.index.vecs =
                       [l \in (DOMAIN d.index.vecs) \cup new |->
                           IF l \in new THEN embeddings[l - start_id + 1]
                           ELSE d.index.vecs[l]]]]

\* HnswSearcher::load, and BackendSearcher::len of the loaded index
BackendLoad(d) ==
    [ok |-> d.index.exists, vecs |-> d.index.vecs]

----------------------------------------------------------------------------
(* StreamingIndexBuilder *)

NoWriter == [offsets |-> EmptyMap, current_offset |-> 0, buf |-> <<>>]

NoBuilder ==
    [dimensions |-> 0, recompute_mode |-> FALSE, passage_writer |-> NoWriter,
     ids_buf |-> <<>>, emb_buf |-> <<>>, embeddings |-> <<>>, ids |-> <<>>,
     count |-> 0]

\* StreamingIndexBuilder::new: the parent directory is made, the JSONL file,
\* the embeddings file (recompute mode only) and the ids file are created
\* empty; no other file is touched
BuilderNew(d, dimensions, recompute_mode) ==
    LET c  == PassageStoreCreate([d EXCEPT !.dir = TRUE])
        d1 == IF recompute_mode
              THEN [c.disk EXCEPT !.emb = [exists |-> TRUE, data |-> <<>>]]
              ELSE c.disk
    IN [disk |-> [d1 EXCEPT !.ids = [exists |-> TRUE, toks |-> <<>>]],
        b    |-> [dimensions |-> dimensions, recompute_mode |-> recompute_mode,
                  passage_writer |-> c.pw,
                  ids_buf |-> <<>>, emb_buf |-> <<>>,
                  embeddings |-> <<>>, ids |-> <<>>, count |-> 0]]

\* an add_passage that checks the dimensions after the passage and the id
\* were written: C10 must tell it apart
AddPassageLateCheck(b, id, text, embedding, metadata) ==
    LET b1 == [b EXCEPT
                 !.passage_writer =
                     WriterAdd(@, [id |-> id, text |-> text,
                                   metadata |-> metadata]).pw,
                 !.ids_buf = @ \o (IF b.count > 0 THEN <<NL>> ELSE <<>>) \o <<id>>]
    IN IF Len(embedding) # b.dimensions
       THEN [ok |-> FALSE, b |-> b1]
       ELSE [ok |-> TRUE,
             b  |-> [b1 EXCEPT
                       !.emb_buf = IF b.recompute_mode THEN @ \o embedding ELSE @,
                       !.embeddings = Append(@, embedding),
                       !.ids = Append(@, id),
                       !.count = @ + 1]]

\* StreamingIndexBuilder::add_passage
AddPassage(b, id, text, embedding, metadata) ==
    IF Len(embedding) # b.dimensions
    THEN [ok |-> FALSE, b |-> b]
    ELSE [ok |-> TRUE,
          b  |-> [b EXCEPT
                    !.passage_writer =
                        WriterAdd(@, [id |-> id, text |-> text,
                                      metadata |-> metadata]).pw,
                    !.ids_buf = @ \o (IF b.count > 0 THEN <<NL>> ELSE <<>>) \o <<id>>,
                    !.emb_buf = IF b.recompute_mode THEN @ \o embedding ELSE @,
                    !.embeddings = Append(@, embedding),
                    !.ids = Append(@, id),
                    !.count = @ + 1]]

\* StreamingIndexBuilder::build after passage_writer.finish(): the ids and the
\* embeddings writers are flushed and the backend graph is built and saved
BuilderBuildRest(d, b) ==
    LET d1 == [d EXCEPT !.ids.toks = @ \o b.ids_buf,
                        !.emb.data = @ \o b.emb_buf]
    IN BuildIndex(d1, b.embeddings)

\* a StreamingIndexBuilder dropped without build(): its three BufWriters
\* write out what they hold; the offset map and the graph are not written
BuilderDrop(d, b) ==
    [FlushJsonl(d, b.passage_writer).disk EXCEPT
        !.ids.toks = @ \o b.ids_buf,
        !.emb.data = @ \o b.emb_buf]

----------------------------------------------------------------------------
(* Commands of the CLI *)

\* SimpleChunker::chunk: the counter is advanced, then names the chunk
ChunkId(chunk_id) == ToStr(chunk_id + 1)

\* cli/update.rs: the ids given to the chunks of an update
UpdateId(start_id, i) == ToStr(start_id + i)

NoRun ==
    [kind |-> "none", b |-> NoBuilder, recompute |-> FALSE,
     chunk_id |-> 0, total_chunks |-> 0, start_id |-> 0,
     new_ids |-> <<>>, new_embeddings |-> <<>>]

Init ==
    /\ disk = EmptyDisk
    /\ wpc = "idle"
    /\ w = NoRun
    /\ call = [op |-> "none", ok |-> TRUE]
    /\ hist = [failed |-> FALSE, unfinished |-> FALSE, before |-> EmptyMap,
               runs |-> 0, calls |-> <<>>, added |-> <<>>, rejected |-> FALSE]

\* build without --force on a directory that exists
BuildRefuse ==
    /\ wpc = "idle"
    /\ disk.dir
    /\ call' = [op |-> "build", ok |-> FALSE]
    /\ hist' = [hist EXCEPT !.failed = TRUE]
    /\ UNCHANGED <<disk, wpc, w>>

\* build: the index directory is made, then no document is found
BuildNoDocs ==
    /\ wpc = "idle"
    /\ disk' = [disk EXCEPT !.dir = TRUE]
    /\ call' = [op |-> "build", ok |-> FALSE]
    /\ hist' = [hist EXCEPT !.failed = TRUE]
    /\ UNCHANGED <<wpc, w>>

\* build (first build, or --force over what is there) up to
\* StreamingIndexBuilder::new
BuildStart(force, recompute) ==
    /\ wpc = "idle"
    /\ hist.runs < MaxRuns
    /\ ~disk.dir \/ force
    /\ LET r == BuilderNew(disk, Dim, recompute) IN
         /\ disk' = r.disk
         /\ w' = [NoRun EXCEPT !.kind = "build", !.b = r.b,
                               !.recompute = recompute]
    /\ wpc' = "adding"
    /\ call' = [op |-> "new", ok |-> TRUE]
    /\ hist' = [hist EXCEPT !.unfinished = TRUE, !.before = EmptyMap,
                            !.runs = @ + 1, !.calls = <<>>, !.added = <<>>,
                            !.rejected = FALSE]

\* build: one chunk goes through process_chunk_batch into add_passage; the
\* BufWriter of the JSONL may write out what it holds first
BuildAddChunk(c, spill) ==
    /\ wpc = "adding" /\ w.kind = "build"
    /\ w.chunk_id < MaxBuildChunks
    /\ LET f == IF spill THEN FlushJsonl(disk, w.b.passage_writer)
                ELSE [disk |-> disk, pw |-> w.b.passage_writer]
           r == AddPassage([w.b EXCEPT !.passage_writer = f.pw],
                           ChunkId(w.chunk_id), c.text, c.emb, c.metadata)
       IN /\ r.ok
          /\ disk' = f.disk
          /\ w' = [w EXCEPT !.b = r.b, !.chunk_id = @ + 1,
                            !.total_chunks = @ + 1]
    /\ call' = [op |-> "add_passage", ok |-> TRUE]
    /\ UNCHANGED <<wpc, hist>>

\* build: the embedding provider (or add_passage) fails; run returns the
\* error and the builder is dropped
BuildAbort ==
    /\ wpc = "adding" /\ w.kind = "build"
    /\ disk' = BuilderDrop(disk, w.b)
    /\ wpc' = "idle"
    /\ w' = NoRun
    /\ call' = [op |-> "build", ok |-> FALSE]
    /\ hist' = [hist EXCEPT !.failed = TRUE]

\* PassageStoreWriter::finish, first statement: writer.flush()
FinishFlush ==
    /\ wpc = "adding"
    /\ w.kind = "update" => Len(w.new_ids) > 0
    /\ LET f == FlushJsonl(disk, w.b.passage_writer) IN
         /\ disk' = f.disk
         /\ w' = [w EXCEPT !.b.passage_writer = f.pw]
    /\ wpc' = "finish_flushed"
    /\ call' = [op |-> "finish", ok |-> TRUE]
    /\ UNCHANGED hist

\* PassageStoreWriter::finish, std::fs::write opens the offset map file
FinishTruncate ==
    /\ wpc = "finish_flushed"
    /\ disk' = TruncateIdx(disk)
    /\ wpc' = "finish_truncated"
    /\ call' = [op |-> "finish", ok |-> TRUE]
    /\ UNCHANGED <<w, hist>>

\* PassageStoreWriter::finish, std::fs::write writes the offset map
FinishWrite ==
    /\ wpc = "finish_truncated"
    /\ disk' = WriteIdx(disk, w.b.passage_writer)
    /\ wpc' = "finish_written"
    /\ call' = [op |-> "finish", ok |-> TRUE]
    /\ hist' = [hist EXCEPT !.unfinished = IF w.kind = "build" THEN FALSE ELSE @]
    /\ UNCHANGED w

\* IndexMeta::save of the meta that build makes
BuildMeta(recompute, total_chunks) ==
    [version |-> "1.0", backend_name |-> "hnsw", embedding_mode |-> "openai",
     dimensions |-> Dim, passage_count |-> total_chunks,
     is_recompute |-> recompute, is_pruned |-> FALSE]

\* build: the rest of StreamingIndexBuilder::build, then the meta is saved
BuildComplete ==
    /\ wpc = "finish_written" /\ w.kind = "build"
    /\ disk' = [BuilderBuildRest(disk, w.b) EXCEPT
                  !.meta = [exists |-> TRUE,
                            m |-> BuildMeta(w.recompute, w.total_chunks)]]
    /\ wpc' = "idle"
    /\ w' = NoRun
    /\ call' = [op |-> "build", ok |-> TRUE]
    /\ UNCHANGED hist

\* what update can do before it writes anything
UpdateReady(d) ==
    /\ d.meta.exists
    /\ d.meta.m.backend_name = "hnsw"
    /\ d.meta.m.embedding_mode \in {"openai", "ollama"}
    /\ PassageStoreOpenForAppend(d).ok

\* update that bails before it writes anything: no meta, a backend or an
\* embedding mode it does not take, or no offset map to append to
UpdateRefuse ==
    /\ wpc = "idle"
    /\ ~UpdateReady(disk)
    /\ call' = [op |-> "update", ok |-> FALSE]
    /\ hist' = [hist EXCEPT !.failed = TRUE]
    /\ UNCHANGED <<disk, wpc, w>>

\* update that finds no new chunk
UpdateNoDocs ==
    /\ wpc = "idle"
    /\ disk.meta.exists
    /\ disk.meta.m.backend_name = "hnsw"
    /\ disk.meta.m.embedding_mode \in {"openai", "ollama"}
    /\ call' = [op |-> "update", ok |-> TRUE]
    /\ UNCHANGED <<disk, wpc, w, hist>>

\* every passage a reader of the index gets now, by id
Snapshot(d) ==
    LET o == PassageStoreOpen(d).offsets IN
    [id \in DOMAIN o |-> PassageStoreGet(d, o, id)]

\* update up to PassageStore::open_for_append
UpdateStart ==
    /\ wpc = "idle"
    /\ hist.runs < MaxRuns
    /\ UpdateReady(disk)
    /\ disk.meta.m.passage_count < MaxPassages
    /\ w' = [NoRun EXCEPT !.kind = "update",
                          !.b.passage_writer = PassageStoreOpenForAppend(disk).pw,
                          !.start_id = disk.meta.m.passage_count]
    /\ wpc' = "adding"
    /\ call' = [op |-> "open_for_append", ok |-> TRUE]
    /\ hist' = [hist EXCEPT !.before = Snapshot(disk), !.runs = @ + 1]
    /\ UNCHANGED disk

\* update: the next chunk gets its id and is added to the passage store
UpdateAddChunk(c, spill) ==
    /\ wpc = "adding" /\ w.kind = "update"
    /\ w.start_id + Len(w.new_ids) < MaxPassages
    /\ LET f == IF spill THEN FlushJsonl(disk, w.b.passage_writer)
                ELSE [disk |-> disk, pw |-> w.b.passage_writer]
           id == UpdateId(w.start_id, Len(w.new_ids))
           r == WriterAdd(f.pw, [id |-> id, text |-> c.text,
                                 metadata |-> c.metadata])
       IN /\ r.ok
          /\ disk' = f.disk
          /\ w' = [w EXCEPT !.b.passage_writer = r.pw,
                            !.new_ids = Append(@, id),
                            !.new_embeddings = Append(@, c.emb)]
    /\ call' = [op |-> "add", ok |-> TRUE]
    /\ UNCHANGED <<wpc, hist>>

RECURSIVE PushIds(_, _)
\* cli/update.rs: a newline goes before an id unless the content is empty
PushIds(toks, ids) ==
    IF ids = <<>> THEN toks
    ELSE PushIds(toks \o (IF toks # <<>> THEN <<NL>> ELSE <<>>) \o <<Head(ids)>>,
                 Tail(ids))

\* update after passage_writer.finish(): the ids file is rewritten, the
\* vectors are added to the graph, the count of the meta is raised
UpdateRest(d, start_id, new_ids, new_embeddings) ==
    LET d1 == [d EXCEPT !.ids = [exists |-> TRUE,
                                 toks |-> PushIds(d.ids.toks, new_ids)]]
        a  == AddToIndex(d1, new_embeddings, start_id)
    IN IF a.ok
       THEN [ok |-> TRUE,
             disk |-> [a.disk EXCEPT !.meta.m.passage_count = @ + Len(new_ids)]]
       ELSE [ok |-> FALSE, disk |-> d1]

UpdateComplete ==
    /\ wpc = "finish_written" /\ w.kind = "update"
    /\ LET r == UpdateRest(disk, w.start_id, w.new_ids, w.new_embeddings) IN
         /\ disk' = r.disk
         /\ call' = [op |-> "update", ok |-> r.ok]
         /\ hist' = [hist EXCEPT !.failed = @ \/ ~r.ok]
    /\ wpc' = "idle"
    /\ w' = NoRun

\* a prune that takes a missing embeddings file for an error: C13 must tell
\* it apart
PruneRunStrict(d, confirmed) ==
    IF ~d.meta.exists \/ ~d.emb.exists THEN [ok |-> FALSE, disk |-> d]
    ELSE IF ~confirmed THEN [ok |-> TRUE, disk |-> d]
    ELSE [ok |-> TRUE,
          disk |-> [PruneEmbeddings(d) EXCEPT !.meta.m.is_pruned = TRUE]]

\* cli/prune.rs run, as a function of the directory and of the confirmation
PruneRun(d, confirmed) ==
    IF ~d.meta.exists THEN [ok |-> FALSE, disk |-> d]
    ELSE IF ~d.emb.exists \/ ~confirmed THEN [ok |-> TRUE, disk |-> d]
    ELSE [ok |-> TRUE,
          disk |-> [PruneEmbeddings(d) EXCEPT !.meta.m.is_pruned = TRUE]]

Prune(confirmed) ==
    /\ wpc = "idle"
    /\ hist.runs < MaxRuns
    /\ LET r == PruneRun(disk, confirmed) IN
         /\ disk' = r.disk
         /\ call' = [op |-> "prune", ok |-> r.ok]
         /\ hist' = [hist EXCEPT !.before = EmptyMap,
                                 !.failed = @ \/ ~r.ok,
                                 !.runs = IF r.disk # disk THEN @ + 1 ELSE @]
    /\ UNCHANGED <<wpc, w>>

\* a reader calls PassageStore::open
ReaderOpen ==
    /\ LET r == PassageStoreOpen(disk) IN
         call' = [op |-> "open", ok |-> r.ok, offsets |-> r.offsets]
    /\ UNCHANGED <<disk, wpc, w, hist>>

\* BackendType::load_searcher: HnswSearcher::load reads <base>.index,
\* DiskAnnSearcher::load reads <base>.diskann
LoadBackend(d, backend_name) ==
    IF backend_name = "hnsw" THEN BackendLoad(d)
    ELSE [ok |-> d.diskann.exists, vecs |-> d.diskann.vecs]

\* IndexSearcher::load
IndexSearcherLoad(d, meta) ==
    /\ PassageStoreOpen(d).ok
    /\ meta.backend_name \in {"hnsw", "diskann"}
    /\ LoadBackend(d, meta.backend_name).ok

\* RecomputeSearcher::load
RecomputeSearcherLoad(d) == PassageStoreOpen(d).ok

\* the commands that pick the searcher by meta.is_pruned
PruneAware == {"search", "mcp"}

Commands == {"search", "mcp", "ask", "react", "serve"}

\* the searcher a command loads for its queries
CommandLoad(d, cmd) ==
    IF ~d.meta.exists THEN "none"
    ELSE IF cmd \in PruneAware /\ d.meta.m.is_pruned
         THEN (IF RecomputeSearcherLoad(d) THEN "recompute" ELSE "none")
         ELSE (IF IndexSearcherLoad(d, d.meta.m) THEN "index" ELSE "none")

SearcherLoad(cmd) ==
    /\ LET k == CommandLoad(disk, cmd) IN
         call' = [op |-> "load", ok |-> k # "none", cmd |-> cmd, searcher |-> k,
                  is_pruned |-> disk.meta.m.is_pruned]
    /\ UNCHANGED <<disk, wpc, w, hist>>

Next ==
    \/ BuildRefuse
    \/ BuildNoDocs
    \/ \E force \in BOOLEAN, recompute \in BOOLEAN : BuildStart(force, recompute)
    \/ \E c \in ChunkInputs, spill \in BOOLEAN : BuildAddChunk(c, spill)
    \/ BuildAbort
    \/ FinishFlush
    \/ FinishTruncate
    \/ FinishWrite
    \/ BuildComplete
    \/ UpdateRefuse
    \/ UpdateNoDocs
    \/ UpdateStart
    \/ \E c \in ChunkInputs, spill \in BOOLEAN : UpdateAddChunk(c, spill)
    \/ UpdateComplete
    \/ \E confirmed \in BOOLEAN : Prune(confirmed)
    \/ ReaderOpen
    \/ \E cmd \in Commands : SearcherLoad(cmd)

Spec == Init /\ [][Next]_vars

----------------------------------------------------------------------------
(* The library used directly: StreamingIndexBuilder and PassageStore with  *)
(* ids, texts and embeddings of the caller's choice                        *)

\* builders and appending writers a caller creates in one history
MaxLibRuns == 2

\* ids a caller passes
CallerIds == {ToStr(i) : i \in 1..MaxPassages}

\* embeddings a caller passes: of the builder's dimensions, or one short
CallerEmbeddings == {c.emb : c \in ChunkInputs} \cup {Unit(Dim - 1, 1)}

\* PassageStoreWriter::finish
WriterFinish(d, pw) ==
    LET f == FlushJsonl(d, pw) IN WriteIdx(TruncateIdx(f.disk), f.pw)

\* StreamingIndexBuilder::build
BuilderBuild(d, b) ==
    BuilderBuildRest(WriterFinish(d, b.passage_writer),
                     [b EXCEPT !.passage_writer.buf = <<>>])

\* StreamingIndexBuilder::new over whatever the directory holds
LibNew(recompute) ==
    /\ hist.runs < MaxLibRuns
    /\ BuildStart(TRUE, recompute)

LibAddPassage(id, c, embedding) ==
    /\ wpc = "adding" /\ w.kind = "build"
    /\ w.b.count < MaxBuildChunks
    /\ LET r == AddPassage(w.b, id, c.text, embedding, c.metadata) IN
         /\ w' = [w EXCEPT !.b = r.b]
         /\ call' = [op |-> "add_passage", ok |-> r.ok, id |-> id,
                     embedding |-> embedding]
         /\ hist' = IF r.ok
                    THEN [hist EXCEPT
                            !.calls = Append(@, [id |-> id, embedding |-> embedding]),
                            !.added = Append(@, [id |-> id, text |-> c.text,
                                                 metadata |-> c.metadata])]
                    ELSE [hist EXCEPT !.rejected = TRUE]
    /\ UNCHANGED <<disk, wpc>>

LibBuild ==
    /\ wpc = "adding" /\ w.kind = "build"
    /\ disk' = BuilderBuild(disk, w.b)
    /\ wpc' = "idle"
    /\ w' = NoRun
    /\ call' = [op |-> "built", ok |-> TRUE, recompute |-> w.b.recompute_mode]
    /\ hist' = [hist EXCEPT !.unfinished = FALSE]

LibOpenForAppend ==
    /\ wpc = "idle"
    /\ hist.runs < MaxLibRuns
    /\ LET r == PassageStoreOpenForAppend(disk) IN
         /\ w' = IF r.ok
                 THEN [NoRun EXCEPT !.kind = "append", !.b.passage_writer = r.pw]
                 ELSE w
         /\ wpc' = IF r.ok THEN "adding" ELSE wpc
         /\ call' = [op |-> "open_for_append", ok |-> r.ok]
         /\ hist' = [hist EXCEPT !.runs = IF r.ok THEN @ + 1 ELSE @,
                                 !.before = IF r.ok THEN Snapshot(disk) ELSE @]
    /\ UNCHANGED disk

LibAdd(id, c, spill) ==
    /\ wpc = "adding" /\ w.kind = "append"
    /\ Len(hist.added) < MaxPassages
    /\ LET passage == [id |-> id, text |-> c.text, metadata |-> c.metadata]
           f == IF spill THEN FlushJsonl(disk, w.b.passage_writer)
                ELSE [disk |-> disk, pw |-> w.b.passage_writer]
           r == WriterAdd(f.pw, passage)
       IN /\ disk' = IF r.ok THEN f.disk ELSE disk
          /\ w' = [w EXCEPT !.b.passage_writer = r.pw]
          /\ call' = [op |-> "add", ok |-> r.ok, id |-> id,
                      dup |-> id \in DOMAIN w.b.passage_writer.offsets,
                      kept |-> /\ r.pw.offsets = w.b.passage_writer.offsets
                               /\ r.pw.current_offset = w.b.passage_writer.current_offset
                               /\ f.disk.jsonl.lines \o r.pw.buf =
                                      disk.jsonl.lines \o w.b.passage_writer.buf]
          /\ hist' = IF r.ok THEN [hist EXCEPT !.added = Append(@, passage)]
                     ELSE hist
    /\ UNCHANGED wpc

LibFinish ==
    /\ wpc = "adding" /\ w.kind = "append"
    /\ disk' = WriterFinish(disk, w.b.passage_writer)
    /\ wpc' = "idle"
    /\ w' = NoRun
    /\ call' = [op |-> "finish", ok |-> TRUE]
    /\ UNCHANGED hist

\* PassageStore::open followed by get(id)
LibGet(id) ==
    /\ LET o == PassageStoreOpen(disk)
           g == PassageStoreGet(disk, o.offsets, id)
       IN call' = [op |-> "get", ok |-> o.ok /\ g.ok, id |-> id,
                   passage |-> g.passage]
    /\ UNCHANGED <<disk, wpc, w, hist>>

NextLib ==
    \/ \E recompute \in BOOLEAN : LibNew(recompute)
    \/ \E id \in CallerIds, c \in ChunkInputs, e \in CallerEmbeddings :
          LibAddPassage(id, c, e)
    \/ LibBuild
    \/ BuildAbort
    \/ LibOpenForAppend
    \/ \E id \in CallerIds, c \in ChunkInputs, spill \in BOOLEAN : LibAdd(id, c, spill)
    \/ LibFinish
    \/ \E id \in CallerIds : LibGet(id)

SpecLib == Init /\ [][NextLib]_vars

----------------------------------------------------------------------------
(* Searching: the backend, BM25, hybrid reranking, IndexSearcher and       *)
(* RecomputeSearcher                                                       *)

\* chunks one document gives
MaxFileChunks == 2
\* copies of a document among the documents of one build
MaxCopies == 3
\* the largest top_k a query asks for
MaxTopK == 2

\* serde_json::from_str of the metadata of a stored line, over the metadata
\* texts the chunks of this model carry
ParseMetadata(text) ==
    CASE text = "{}"        -> [kind |-> "object", fields |-> EmptyMap]
      [] text = "{\"t\":1}" -> [kind |-> "object", fields |-> ("t" :> 1)]
      [] OTHER              -> [kind |-> "null", fields |-> EmptyMap]

\* the chunks of the documents that are indexed and queried: text (one
\* word), metadata as serialized, and the embedding of the text
DocInputs ==
    ChunkInputs \cup
    { [text |-> "cc", metadata |-> "{\"t\":1}", emb |-> [i \in 1..Dim |-> IF i = 1 THEN 2 ELSE 0]] }

\* EmbeddingProvider::embed for the model the index was built with
Embed(text) == (CHOOSE c \in DocInputs : c.text = text).emb

\* sequences over S of length 0..n
SeqsUpTo(S, n) == UNION {[1..k -> S] : k \in 0..n}

RECURSIVE Sum(_, _)
Sum(f, n) == IF n = 0 THEN 0 ELSE f[n] + Sum(f, n - 1)

\* dot_product
Dot(a, b) == Sum([i \in 1..Len(a) |-> a[i] * b[i]], Len(a))

\* scores are kept as fractions num/den with den > 0
Frac(num, den) == [num |-> num, den |-> den]
FracLess(a, b) == a.num * b.den < b.num * a.den

RECURSIVE InsertDesc(_, _)
InsertDesc(s, x) ==
    IF s = <<>> THEN <<x>>
    ELSE IF FracLess(Head(s).score, x.score) THEN <<x>> \o s
         ELSE <<Head(s)>> \o InsertDesc(Tail(s), x)

RECURSIVE SortDesc(_)
\* slice::sort_by(|a, b| b.1.partial_cmp(&a.1)): stable, descending by score
SortDesc(s) ==
    IF s = <<>> THEN <<>>
    ELSE InsertDesc(SortDesc(SubSeq(s, 1, Len(s) - 1)), s[Len(s)])

\* Vec::truncate / Iterator::take
Take(s, k) == SubSeq(s, 1, IF k < Len(s) THEN k ELSE Len(s))

RECURSIVE SeqOfSet(_, _)
\* the numbers of S in ascending (low) or descending order
SeqOfSet(S, low) ==
    IF S = {} THEN <<>>
    ELSE LET x == IF low THEN CHOOSE m \in S : \A y \in S : m <= y
                  ELSE CHOOSE m \in S : \A y \in S : m >= y
         IN <<x>> \o SeqOfSet(S \ {x}, low)

\* the order usearch leaves vectors of equal distance in is not specified:
\* lower label first, or higher label first
TieBreaks == BOOLEAN

\* a search that returns the vectors of least inner product first: C14 must
\* tell it apart
BackendSearchFarFirst(vecs, query, count, low) ==
    LET labels == SeqOfSet(DOMAIN vecs, low)
        byFar  == SortDesc([i \in 1..Len(labels) |->
                     [idx |-> labels[i],
                      score |-> Frac(1 - Dot(query, vecs[labels[i]]), 1)]])
    IN Take(byFar, count)

\* Index::search under MetricKind::IP: the count nearest vectors, nearest
\* first, with distance 1 - <query, vector>
BackendSearch(vecs, query, count, low) ==
    LET labels == SeqOfSet(DOMAIN vecs, low)
        byNear == SortDesc([i \in 1..Len(labels) |->
                     [idx |-> labels[i],
                      score |-> Frac(Dot(query, vecs[labels[i]]) - 1, 1)]])
    IN [i \in 1..Len(Take(byNear, count)) |->
           [idx |-> byNear[i].idx, score |-> Frac(0 - byNear[i].score.num, 1)]] \o <<>>

\* the matches of TOKEN_REGEX ([a-zA-Z0-9]+) in the texts of the model, in
\* order
Words ==
    ""      :> <<>> @@
    "the"   :> <<"the">> @@
    "data"  :> <<"data">> @@
    "the data" :> <<"the", "data">> @@
    "the data graph" :> <<"the", "data", "graph">> @@
    "the fn run" :> <<"the", "fn", "run">> @@
    "the the the the" :> <<"the", "the", "the", "the">> @@
    "a"     :> <<"a">> @@
    "bb"    :> <<"bb">> @@
    "cc"    :> <<"cc">> @@
    "zz"    :> <<"zz">> @@
    "BB"    :> <<"BB">> @@
    "bb bb" :> <<"bb", "bb">> @@
    "bb cc" :> <<"bb", "cc">> @@
    "bb, a" :> <<"bb", "a">> @@
    "zz bb" :> <<"zz", "bb">> @@
    "the a" :> <<"the", "a">> @@
    "the bb" :> <<"the", "bb">>

\* str::to_lowercase on the words of the model
Lower(word) == IF word = "BB" THEN "bb" ELSE word

\* bm25::tokenize: the words in lower case, those of one character dropped
Tokenize(text) ==
    SelectSeq([i \in 1..Len(Words[text]) |-> Lower(Words[text][i])] \o <<>>,
              LAMBDA t : Len(t) > 1)

\* occurrences of token in tokens
Count(tokens, token) == Cardinality({i \in 1..Len(tokens) : tokens[i] = token})

\* Bm25Scorer::build
Bm25Build(documents) ==
    LET toks == [i \in 1..Len(documents) |-> Tokenize(documents[i])] \o <<>> IN
    [num_docs    |-> Len(documents),
     doc_lengths |-> [i \in 1..Len(documents) |-> Len(toks[i])] \o <<>>,
     total_len   |-> Sum([i \in 1..Len(documents) |-> Len(toks[i])], Len(documents)),
     tokens      |-> toks]

\* Bm25Scorer::doc_freq: the number of documents that hold the token
DocFreq(scorer, token) ==
    Cardinality({i \in 1..scorer.num_docs : Count(scorer.tokens[i], token) > 0})

\* 2^24: an f32 has 24 bits of mantissa, so 1.0 + x is 1.0 for x up to 2^-24
F32Mantissa == 16777216

\* score_query, idf > 0: ((num_docs - df + 0.5) / (df + 0.5) + 1.0).ln() in
\* f32 is above 0 exactly when the quotient is above 2^-24, which is
\* (2 num_docs - 2 df + 1) * 2^24 > 2 df + 1
IdfPositive(num_docs, df) ==
    ((2 * df + 1) \div (2 * num_docs - 2 * df + 1)) < F32Mantissa

\* score_query, the score one query token gives one document that holds it
\* tf times, in units of idf * (K1 + 1):
\* tf / (tf + K1 * (1 - B + B * doc_len / avg_doc_len)) with K1 = 1.2 and
\* B = 0.75, numerator and denominator multiplied by 10 * total_len; 0 when
\* idf is 0
ScoreComponent(num_docs, df, tf, doc_len, total_len) ==
    IF ~IdfPositive(num_docs, df) THEN Frac(0, 1)
    ELSE Frac(10 * tf * total_len,
              10 * tf * total_len + 3 * total_len + 9 * doc_len * num_docs)

\* a score_query with the idf of the original BM25, ln((N - df + 0.5) /
\* (df + 0.5)), which is below 0 for a token in more than half of the
\* documents; in units of |idf| * (K1 + 1): C24 must tell it apart
ScoreQueryPlainIdf(scorer, query_text) ==
    LET q     == Tokenize(query_text)
        known == {q[k] : k \in {k \in 1..Len(q) : DocFreq(scorer, q[k]) > 0}}
    IN [i \in 1..scorer.num_docs |->
          IF known = {} THEN Frac(0, 1)
          ELSE LET t  == CHOOSE t \in known : TRUE
                   df == DocFreq(scorer, t)
                   tf == Count(scorer.tokens[i], t)
                   c  == ScoreComponent(scorer.num_docs, df, tf,
                                        scorer.doc_lengths[i], scorer.total_len)
               IN IF tf = 0 \/ scorer.num_docs = 2 * df THEN Frac(0, 1)
                  ELSE IF scorer.num_docs < 2 * df
                  THEN Frac(0 - Count(q, t) * c.num, c.den)
                  ELSE Frac(Count(q, t) * c.num, c.den)] \o <<>>

\* Bm25Scorer::score_query for a query in which at most one token, that may
\* occur several times, is in a document: query tokens in no document are
\* passed over, and every occurrence of the token adds its score
\* component
ScoreQuery(scorer, query_text) ==
    LET q     == Tokenize(query_text)
        known == {q[k] : k \in {k \in 1..Len(q) : DocFreq(scorer, q[k]) > 0}}
    IN IF known = {} THEN [i \in 1..scorer.num_docs |-> Frac(0, 1)] \o <<>>
       ELSE LET t      == CHOOSE t \in known : TRUE
                df     == DocFreq(scorer, t)
                copies == Count(q, t)
            IN [i \in 1..scorer.num_docs |->
                  LET tf == Count(scorer.tokens[i], t)
                      c  == ScoreComponent(scorer.num_docs, df, tf,
                                           scorer.doc_lengths[i], scorer.total_len)
                  IN IF tf = 0 THEN Frac(0, 1)
                     ELSE Frac(copies * c.num, c.den)] \o <<>>

RECURSIVE Positive(_)
\* the elements of s with a score above 0, in order
Positive(s) ==
    IF s = <<>> THEN <<>>
    ELSE (IF Head(s).score.num > 0 THEN <<Head(s)>> ELSE <<>>) \o Positive(Tail(s))

\* a search that keeps the documents of score 0 as well: C25 must tell it
\* apart
Bm25SearchUnfiltered(scorer, query_text, top_k) ==
    LET scores == ScoreQuery(scorer, query_text) IN
    Take(SortDesc([i \in 1..Len(scores) |->
                      [idx |-> i - 1, score |-> scores[i]]]), top_k)

\* Bm25Scorer::search: documents with a positive score, best first
Bm25Search(scorer, query_text, top_k) ==
    LET scores == ScoreQuery(scorer, query_text) IN
    Take(SortDesc(Positive([i \in 1..Len(scores) |->
                               [idx |-> i - 1, score |-> scores[i]]])), top_k)

\* the weights of the vector score that queries use
HybridAlphas == {0, 1}

RECURSIVE Gcd(_, _)
Gcd(a, b) == IF b = 0 THEN a ELSE Gcd(b, a % b)

\* num / den in lowest terms, den positive
Reduced(num, den) ==
    LET g == Gcd(IF num < 0 THEN -num ELSE num, den)
    IN Frac(num \div g, den \div g)

FracSub(a, b) == Reduced(a.num * b.den - b.num * a.den, a.den * b.den)

\* the greatest (least) score of a non-empty sequence of scores
MaxScore(scores) ==
    scores[CHOOSE i \in 1..Len(scores) :
               \A j \in 1..Len(scores) : ~FracLess(scores[i], scores[j])]
MinScore(scores) ==
    scores[CHOOSE i \in 1..Len(scores) :
               \A j \in 1..Len(scores) : ~FracLess(scores[j], scores[i])]

\* 1 / 1e-6, the divisor hybrid_rerank falls back to for a range of 0
TinyRangeInverse == 1000000

\* (score - min) / (max - min).max(1e-6)
Normalized(score, min, max) ==
    LET range == FracSub(max, min)
        above == FracSub(score, min)
    IN IF range.num > 0 THEN Reduced(above.num * range.den, above.den * range.num)
       ELSE Reduced(above.num * TinyRangeInverse, above.den)

\* bm25::hybrid_rerank for alpha 1 (the combined score is the normalized
\* vector score) and alpha 0 (it is the normalized BM25 score, that of 0
\* for an index bm25_scores does not cover); with no BM25 score at all
\* every combined score is NaN or -inf and the stable sort keeps the order
\* and the scores are not comparable: the vector scores stand for them
HybridRerank(vector_results, bm25_scores, alpha) ==
    IF Len(bm25_scores) = 0 \/ Len(vector_results) = 0 THEN vector_results
    ELSE LET vs         == [i \in 1..Len(vector_results) |-> vector_results[i].score] \o <<>>
             min_vector == MinScore(vs)
             max_vector == MaxScore(vs)
             min_bm25   == MinScore(bm25_scores)
             max_bm25   == MaxScore(bm25_scores)
         IN SortDesc([i \in 1..Len(vector_results) |->
                [idx   |-> vector_results[i].idx,
                 score |-> IF alpha = 1
                           THEN Normalized(vector_results[i].score, min_vector, max_vector)
                           ELSE Normalized(IF vector_results[i].idx < Len(bm25_scores)
                                           THEN bm25_scores[vector_results[i].idx + 1]
                                           ELSE Frac(0, 1),
                                           min_bm25, max_bm25)]] \o <<>>)

NoFilter == [field |-> "", op |-> "none", value |-> 0]

\* the metadata filters queries use
Filters == { [field |-> "t", op |-> "exists", value |-> 0] }

\* FilterCondition::matches for Exists, Eq and Ne on a top-level field
FilterMatches(f, metadata) ==
    LET v       == ParseMetadata(metadata)
        present == v.kind = "object" /\ f.field \in DOMAIN v.fields
    IN CASE f.op = "exists" -> present
         [] f.op = "eq"     -> present /\ v.fields[f.field] = f.value
         [] f.op = "ne"     -> ~present \/ v.fields[f.field] # f.value
         [] OTHER           -> TRUE

\* IndexSearcher::load: the offset map, the id map and the graph are read
\* into memory; the JSONL file is read at every get
LoadSearcher(d, meta) ==
    [ok |-> IndexSearcherLoad(d, meta),
     s  |-> [offsets |-> PassageStoreOpen(d).offsets,
             id_map  |-> LoadIdMap(d, PassageStoreOpen(d).offsets),
             vecs    |-> LoadBackend(d, meta.backend_name).vecs]]

\* IndexSearcher::get_all_texts
GetAllTexts(s, d) ==
    [i \in 1..Len(s.id_map) |->
        LET g == PassageStoreGet(d, s.offsets, s.id_map[i]) IN
        IF g.ok THEN g.passage.text ELSE ""] \o <<>>

\* the id search_with_options looks a label up under
IdOf(s, idx) == IF idx < Len(s.id_map) THEN s.id_map[idx + 1] ELSE ToStr(idx)

RECURSIVE HydrateUnfiltered(_, _, _, _, _, _)
\* a loop that emits every candidate it can load, matching or not: C17
\* must tell it apart
HydrateUnfiltered(s, d, cands, filter, top_k, results) ==
    IF cands = <<>> \/ Len(results) >= top_k THEN results
    ELSE LET c  == Head(cands)
             id == IdOf(s, c.idx)
             g  == PassageStoreGet(d, s.offsets, id)
         IN IF g.ok
            THEN HydrateUnfiltered(s, d, Tail(cands), filter, top_k,
                         Append(results, [id |-> id, score |-> c.score,
                                          text |-> g.passage.text,
                                          metadata |-> g.passage.metadata]))
            ELSE HydrateUnfiltered(s, d, Tail(cands), filter, top_k, results)

RECURSIVE HydrateAll(_, _, _, _, _, _)
\* a loop that does not stop at top_k results: C18 must tell it apart
HydrateAll(s, d, cands, filter, top_k, results) ==
    IF cands = <<>> THEN results
    ELSE LET c  == Head(cands)
             id == IdOf(s, c.idx)
             g  == PassageStoreGet(d, s.offsets, id)
         IN IF g.ok /\ (filter = NoFilter \/ FilterMatches(filter, g.passage.metadata))
            THEN HydrateAll(s, d, Tail(cands), filter, top_k,
                         Append(results, [id |-> id, score |-> c.score,
                                          text |-> g.passage.text,
                                          metadata |-> g.passage.metadata]))
            ELSE HydrateAll(s, d, Tail(cands), filter, top_k, results)

RECURSIVE HydrateOrFail(_, _, _, _, _, _)
\* a loop that gives up the whole query at the first passage it cannot
\* load: C19 must tell it apart
HydrateOrFail(s, d, cands, filter, top_k, results) ==
    IF cands = <<>> \/ Len(results) >= top_k THEN results
    ELSE LET c  == Head(cands)
             id == IdOf(s, c.idx)
             g  == PassageStoreGet(d, s.offsets, id)
         IN IF ~g.ok THEN <<>>
            ELSE IF filter = NoFilter \/ FilterMatches(filter, g.passage.metadata)
            THEN HydrateOrFail(s, d, Tail(cands), filter, top_k,
                         Append(results, [id |-> id, score |-> c.score,
                                          text |-> g.passage.text,
                                          metadata |-> g.passage.metadata]))
            ELSE HydrateOrFail(s, d, Tail(cands), filter, top_k, results)

RECURSIVE Hydrate(_, _, _, _, _, _)
\* search_with_options, the loop over the ranked candidates
Hydrate(s, d, cands, filter, top_k, results) ==
    IF cands = <<>> \/ Len(results) >= top_k THEN results
    ELSE LET c  == Head(cands)
             id == IdOf(s, c.idx)
             g  == PassageStoreGet(d, s.offsets, id)
         IN IF g.ok /\ (filter = NoFilter \/ FilterMatches(filter, g.passage.metadata))
            THEN Hydrate(s, d, Tail(cands), filter, top_k,
                         Append(results, [id |-> id, score |-> c.score,
                                          text |-> g.passage.text,
                                          metadata |-> g.passage.metadata]))
            ELSE Hydrate(s, d, Tail(cands), filter, top_k, results)

\* every BM25 top result, whether among the vector results or not: C16
\* must tell it apart
MissingUnchecked(bm25_top, vector_indices) ==
    [i \in 1..Len(bm25_top) |-> [idx |-> bm25_top[i].idx, score |-> Frac(0, 1)]] \o <<>>

\* the BM25 top results whose index is not among the vector results
RECURSIVE Missing(_, _)
Missing(bm25_top, vector_indices) ==
    IF bm25_top = <<>> THEN <<>>
    ELSE (IF Head(bm25_top).idx \in vector_indices THEN <<>>
          ELSE <<[idx |-> Head(bm25_top).idx, score |-> Frac(0, 1)]>>)
         \o Missing(Tail(bm25_top), vector_indices)

\* IndexSearcher::search_with_options; besides the results, what the call
\* computed on its way is kept
SearchWithOptions(s, d, query_embedding, opts, low) ==
    LET fetch_k == IF opts.filter # NoFilter \/ opts.hybrid
                   THEN opts.top_k * 5 ELSE opts.top_k
        vector_results == BackendSearch(s.vecs, query_embedding, fetch_k, low)
        scorer == Bm25Build(GetAllTexts(s, d))
        bm25_scores == ScoreQuery(scorer, opts.query_text)
        bm25_top == Bm25Search(scorer, opts.query_text, fetch_k)
        candidates ==
            vector_results \o
            Missing(bm25_top, {vector_results[i].idx : i \in 1..Len(vector_results)})
        ranked == IF opts.hybrid
                  THEN HybridRerank(candidates, bm25_scores, opts.hybrid_alpha)
                  ELSE vector_results
    IN [results        |-> Hydrate(s, d, ranked, opts.filter, opts.top_k, <<>>),
        fetch_k        |-> fetch_k,
        vector_results |-> vector_results,
        bm25_top       |-> IF opts.hybrid THEN bm25_top ELSE <<>>,
        candidates     |-> IF opts.hybrid THEN candidates ELSE vector_results,
        ranked         |-> ranked,
        scorers        |-> IF opts.hybrid THEN 1 ELSE 0]

\* a search that takes the first top_k valid passages in the order of
\* ids.txt, without ranking them: C20 must tell it apart
RecomputeSearchUnsorted(d, query_embedding, top_k, filter) ==
    LET offsets == PassageStoreOpen(d).offsets
        id_map  == LoadIdMap(d, offsets)
        got     == [i \in 1..Len(id_map) |-> PassageStoreGet(d, offsets, id_map[i])] \o <<>>
        valid   == {i \in 1..Len(id_map) :
                       got[i].ok /\ (filter = NoFilter
                                     \/ FilterMatches(filter, got[i].passage.metadata))}
        top     == Take(SeqOfSet(valid, TRUE), top_k)
    IN [ok |-> RecomputeSearcherLoad(d),
        results |-> [k \in 1..Len(top) |->
                        [id |-> id_map[top[k]],
                         score |-> Frac(Dot(query_embedding,
                                            Embed(got[top[k]].passage.text)), 1),
                         text |-> got[top[k]].passage.text,
                         metadata |-> got[top[k]].passage.metadata]]]

\* RecomputeSearcher::load and search with an embedding provider that gives
\* every text the embedding it had at build time
RecomputeSearch(d, query_embedding, top_k, filter) ==
    LET offsets == PassageStoreOpen(d).offsets
        id_map  == LoadIdMap(d, offsets)
        got     == [i \in 1..Len(id_map) |-> PassageStoreGet(d, offsets, id_map[i])] \o <<>>
        valid   == {i \in 1..Len(id_map) :
                       got[i].ok /\ (filter = NoFilter
                                     \/ FilterMatches(filter, got[i].passage.metadata))}
        order   == SeqOfSet(valid, TRUE)
        scored  == SortDesc([k \in 1..Len(order) |->
                      [idx |-> order[k] - 1,
                       score |-> Frac(Dot(query_embedding,
                                          Embed(got[order[k]].passage.text)), 1)]])
        top     == Take(scored, top_k)
    IN [ok |-> RecomputeSearcherLoad(d),
        results |-> [k \in 1..Len(top) |->
                        [id |-> id_map[top[k].idx + 1], score |-> top[k].score,
                         text |-> got[top[k].idx + 1].passage.text,
                         metadata |-> got[top[k].idx + 1].passage.metadata]]]

----------------------------------------------------------------------------
(* Commands as single steps, followed by queries                           *)

\* commands that write to the index directory in one history of queries
MaxQueryRuns == 2
\* chunks one update command adds
MaxUpdateChunks == 1
\* Bm25Scorers counted for one IndexSearcher
MaxScorers == 2

\* BackendBuilder::build: hnsw::build_index or diskann::build_index, which
\* writes <base>.diskann with vector i under label i
BackendBuild(d, backend, embeddings) ==
    IF backend = "hnsw" THEN BuildIndex(d, embeddings)
    ELSE [d EXCEPT !.diskann =
            [exists |-> TRUE,
             vecs   |-> [l \in 0..(Len(embeddings) - 1) |-> embeddings[l + 1]]]]

RECURSIVE AddChunks(_, _, _)
\* build::run, the chunks in order: chunk number i (from 0) of the command
\* goes through add_passage under the id the chunker gave it
AddChunks(b, chunks, i) ==
    IF i >= Len(chunks) THEN b
    ELSE AddChunks(AddPassage(b, ChunkId(i), chunks[i + 1].text,
                              chunks[i + 1].emb, chunks[i + 1].metadata).b,
                   chunks, i + 1)

\* build::run from the directory check to meta.save, over documents that
\* give these chunks
BuildRun(d, chunks, recompute, backend) ==
    LET n  == BuilderNew(d, Dim, recompute)
        b  == AddChunks(n.b, chunks, 0)
        d1 == WriterFinish(n.disk, b.passage_writer)
        d2 == [d1 EXCEPT !.ids.toks = @ \o b.ids_buf, !.emb.data = @ \o b.emb_buf]
        d3 == BackendBuild(d2, backend, b.embeddings)
    IN [d3 EXCEPT !.meta = [exists |-> TRUE,
                            m |-> [BuildMeta(recompute, Len(chunks)) EXCEPT
                                     !.backend_name = backend]]]

\* build::run that ends with an error after the chunks were added
BuildDropRun(d, chunks, recompute) ==
    LET n == BuilderNew(d, Dim, recompute) IN
    BuilderDrop(n.disk, AddChunks(n.b, chunks, 0))

RECURSIVE AddNew(_, _, _, _)
\* update::run, the loop over the new chunks
AddNew(pw, chunks, start_id, i) ==
    IF i >= Len(chunks) THEN pw
    ELSE AddNew(WriterAdd(pw, [id |-> UpdateId(start_id, i),
                               text |-> chunks[i + 1].text,
                               metadata |-> chunks[i + 1].metadata]).pw,
                chunks, start_id, i + 1)

\* an update::run without the check of the backend at its start, so that
\* only BackendBuilder::add_to_index refuses: C12 must tell it apart
UpdateRunLateCheck(d, chunks) ==
    IF ~d.meta.exists
       \/ d.meta.m.embedding_mode \notin {"openai", "ollama"}
    THEN [ok |-> FALSE, disk |-> d]
    ELSE IF chunks = <<>> THEN [ok |-> TRUE, disk |-> d]
    ELSE IF ~PassageStoreOpenForAppend(d).ok THEN [ok |-> FALSE, disk |-> d]
    ELSE LET start_id == d.meta.m.passage_count
             pw == AddNew(PassageStoreOpenForAppend(d).pw, chunks, start_id, 0)
             r  == UpdateRest(WriterFinish(d, pw), start_id,
                              [i \in 1..Len(chunks) |-> UpdateId(start_id, i - 1)],
                              [i \in 1..Len(chunks) |-> chunks[i].emb])
         IN IF d.meta.m.backend_name = "hnsw" THEN r
            ELSE [ok |-> FALSE, disk |-> r.disk]

\* update::run
UpdateRun(d, chunks) ==
    IF ~d.meta.exists \/ d.meta.m.backend_name # "hnsw"
       \/ d.meta.m.embedding_mode \notin {"openai", "ollama"}
    THEN [ok |-> FALSE, disk |-> d]
    ELSE IF chunks = <<>> THEN [ok |-> TRUE, disk |-> d]
    ELSE IF ~PassageStoreOpenForAppend(d).ok THEN [ok |-> FALSE, disk |-> d]
    ELSE LET start_id == d.meta.m.passage_count
             pw == AddNew(PassageStoreOpenForAppend(d).pw, chunks, start_id, 0)
         IN UpdateRest(WriterFinish(d, pw), start_id,
                       [i \in 1..Len(chunks) |-> UpdateId(start_id, i - 1)],
                       [i \in 1..Len(chunks) |-> chunks[i].emb])

RECURSIVE Repeat(_, _)
Repeat(f, copies) == IF copies = 0 THEN <<>> ELSE f \o Repeat(f, copies - 1)

\* the chunks of the documents of one build: a document and its copies
Corpora ==
    { Repeat(f, copies) : f \in SeqsUpTo(DocInputs, MaxFileChunks),
                          copies \in 1..MaxCopies }

\* embeddings queries are made with
Queries == {c.emb : c \in DocInputs}

\* texts hybrid queries are made with
QueryTexts == {"bb"}

\* SearchOptions of the queries
Options ==
    [top_k : 0..MaxTopK, filter : {NoFilter} \cup Filters, hybrid : {FALSE},
     hybrid_alpha : {1}, query_text : {""}]
    \cup
    [top_k : 0..MaxTopK, filter : {NoFilter} \cup Filters, hybrid : {TRUE},
     hybrid_alpha : HybridAlphas, query_text : QueryTexts]

\* the first result of an IndexSearcher on d, for every order of ties
TopIds(d, query) ==
    { [i \in 1..Len(r) |-> r[i].id] :
        r \in { SearchWithOptions(LoadSearcher(d, d.meta.m).s, d, query,
                                  [top_k |-> 1, filter |-> NoFilter, hybrid |-> FALSE,
                                   hybrid_alpha |-> 1, query_text |-> ""],
                                  low).results : low \in TieBreaks } }

\* build without --force
QBuild(chunks, recompute) ==
    /\ wpc = "idle"
    /\ hist.runs < MaxQueryRuns
    /\ ~disk.dir
    /\ disk' = BuildRun(disk, chunks, recompute, "hnsw")
    /\ call' = [op |-> "build", ok |-> TRUE]
    /\ hist' = [hist EXCEPT
                  !.runs = @ + 1, !.unfinished = FALSE, !.before = EmptyMap,
                  !.calls = [i \in 1..Len(chunks) |->
                                [id |-> ChunkId(i - 1), embedding |-> chunks[i].emb]]]
    /\ UNCHANGED <<wpc, w>>

\* build --force that ends with an error after the chunks were added
QBuildDrop(chunks) ==
    /\ wpc = "idle"
    /\ hist.runs < MaxQueryRuns
    /\ disk' = BuildDropRun(disk, chunks, FALSE)
    /\ call' = [op |-> "build", ok |-> FALSE]
    /\ hist' = [hist EXCEPT !.runs = @ + 1, !.unfinished = TRUE, !.failed = TRUE,
                            !.before = EmptyMap, !.calls = <<>>]
    /\ UNCHANGED <<wpc, w>>

QPrune ==
    /\ wpc = "idle"
    /\ hist.runs < MaxQueryRuns
    /\ LET r == PruneRun(disk, TRUE) IN
         /\ disk' = r.disk
         /\ call' = [op |-> "prune", ok |-> r.ok]
         /\ hist' = [hist EXCEPT
                       !.runs = IF r.disk # disk THEN @ + 1 ELSE @,
                       !.failed = @ \/ ~r.ok,
                       !.before = IF r.disk # disk /\ IndexSearcherLoad(disk, disk.meta.m)
                                  THEN [q \in Queries |-> TopIds(disk, q)]
                                  ELSE @]
    /\ UNCHANGED <<wpc, w>>

\* a command loads an IndexSearcher
QLoad ==
    /\ wpc = "idle"
    /\ disk.meta.exists
    /\ LET r == LoadSearcher(disk, disk.meta.m) IN
         /\ w' = IF r.ok THEN [kind |-> "searcher", s |-> r.s, scorers |-> 0] ELSE w
         /\ wpc' = IF r.ok THEN "serving" ELSE wpc
         /\ call' = [op |-> "searcher", ok |-> r.ok]
    /\ UNCHANGED <<disk, hist>>

\* one search_with_options call on the loaded searcher
QSearch(query, opts, low) ==
    /\ wpc = "serving"
    /\ call.op \in {"searcher", "answered"}
    /\ \E r \in {SearchWithOptions(w.s, disk, query, opts, low)} :
         /\ w.scorers + r.scorers <= MaxScorers
         /\ w' = [w EXCEPT !.scorers = @ + r.scorers]
         /\ call' = [op |-> "search", ok |-> TRUE, query |-> query, opts |-> opts,
                     results |-> r.results, candidates |-> r.candidates,
                     ranked |-> r.ranked, vector_results |-> r.vector_results,
                     bm25_top |-> r.bm25_top, fetch_k |-> r.fetch_k]
    /\ UNCHANGED <<disk, wpc, hist>>

\* the results go to the caller, the searcher waits for the next query
QAnswer ==
    /\ wpc = "serving"
    /\ call.op = "search"
    /\ call' = [op |-> "answered", ok |-> TRUE]
    /\ UNCHANGED <<disk, wpc, w, hist>>

\* the command that holds the searcher ends
QClose ==
    /\ wpc = "serving"
    /\ call.op \in {"searcher", "answered"}
    /\ wpc' = "idle"
    /\ w' = NoRun
    /\ call' = [op |-> "close", ok |-> TRUE]
    /\ UNCHANGED <<disk, hist>>

\* search on a pruned index: RecomputeSearcher::load and search
QRecompute(query, top_k) ==
    /\ wpc = "idle"
    /\ disk.meta.exists /\ disk.meta.m.is_pruned
    /\ \E r \in {RecomputeSearch(disk, query, top_k, NoFilter)} :
         call' = [op |-> "recompute", ok |-> r.ok, query |-> query,
                  top_k |-> top_k,
                  results |-> IF r.ok THEN r.results ELSE <<>>]
    /\ UNCHANGED <<disk, wpc, w, hist>>

NextQuery ==
    \/ \E chunks \in Corpora, recompute \in BOOLEAN : QBuild(chunks, recompute)
    \/ \E chunks \in SeqsUpTo(DocInputs, MaxUpdateChunks) : QBuildDrop(chunks)
    \/ QPrune
    \/ QLoad
    \/ \E query \in Queries, opts \in Options, low \in TieBreaks :
          QSearch(query, opts, low)
    \/ QAnswer
    \/ QClose
    \/ \E query \in Queries, top_k \in 0..MaxTopK : QRecompute(query, top_k)

SpecQuery == Init /\ [][NextQuery]_vars

----------------------------------------------------------------------------
(* The commands build, update and prune as single steps, on either backend *)

CBuild(chunks, recompute, backend, force) ==
    /\ wpc = "idle"
    /\ hist.runs < MaxRuns
    /\ ~disk.dir \/ force
    /\ disk' = BuildRun(disk, chunks, recompute, backend)
    /\ call' = [op |-> "build", ok |-> TRUE]
    /\ hist' = [hist EXCEPT !.runs = @ + 1]
    /\ UNCHANGED <<wpc, w>>

CUpdate(chunks) ==
    /\ wpc = "idle"
    /\ hist.runs < MaxRuns
    /\ disk.meta.m.passage_count + Len(chunks) <= MaxPassages
    /\ LET r == UpdateRun(disk, chunks) IN
         /\ disk' = r.disk
         /\ call' = [op |-> "update", ok |-> r.ok,
                     backend_name |-> disk.meta.m.backend_name,
                     chunks |-> Len(chunks), kept |-> r.disk = disk]
         /\ hist' = [hist EXCEPT !.runs = IF r.disk # disk THEN @ + 1 ELSE @,
                                 !.failed = @ \/ ~r.ok]
    /\ UNCHANGED <<wpc, w>>

CPrune(confirmed) ==
    /\ wpc = "idle"
    /\ LET r == PruneRun(disk, confirmed) IN
         /\ disk' = r.disk
         /\ call' = [op |-> "prune", ok |-> r.ok, confirmed |-> confirmed,
                     twice |-> call.op = "prune" /\ call.ok /\ call.confirmed,
                     kept |-> r.disk = disk]
         /\ hist' = [hist EXCEPT !.failed = @ \/ ~r.ok]
    /\ UNCHANGED <<wpc, w>>

NextCmd ==
    \/ \E chunks \in SeqsUpTo(DocInputs, MaxBuildChunks), recompute \in BOOLEAN,
          backend \in {"hnsw", "diskann"}, force \in BOOLEAN :
          CBuild(chunks, recompute, backend, force)
    \/ \E chunks \in SeqsUpTo(DocInputs, MaxUpdateChunks) : CUpdate(chunks)
    \/ \E confirmed \in BOOLEAN : CPrune(confirmed)

SpecCmd == Init /\ [][NextCmd]_vars

----------------------------------------------------------------------------
(* Claims about the commands *)

\* no command is running, none has failed, and a build has completed
Settled == wpc = "idle" /\ ~hist.failed /\ disk.meta.exists

\* C1: after any sequence of successful build, update and prune commands the
\* ids file has as many lines as meta.passage_count, as the offset map has
\* ids, as the backend has vectors and, when the embeddings file exists, as
\* that file has rows.
C1_CountsAgree ==
    Settled =>
        LET n == disk.meta.m.passage_count IN
        /\ Len(Lines(disk.ids.toks)) = n
        /\ Cardinality(DOMAIN PassageStoreOpen(disk).offsets) = n
        /\ Cardinality(DOMAIN BackendLoad(disk).vecs) = n
        /\ disk.emb.exists => EmbRows(disk, disk.meta.m.dimensions) = n

\* C2: from StreamingIndexBuilder::new until finish has written the offset
\* map (also over a complete index, also after an aborted build) every
\* PassageStore::open fails.
C2_NoOpenBeforeFinish ==
    (call.op = "open" /\ hist.unfinished) => ~call.ok

\* C3: after an update every id the index held before it still yields the
\* passage it yielded before.
C3_PassagesKept ==
    (call.op = "update" /\ call.ok /\ ~hist.failed) =>
        \A id \in DOMAIN hist.before :
            /\ id \in DOMAIN Snapshot(disk)
            /\ Snapshot(disk)[id] = hist.before[id]

\* C7: after successful commands, meta.is_pruned implies meta.is_recompute
\* and that there is no embeddings file.
C7_PrunedIsRecompute ==
    (Settled /\ disk.meta.m.is_pruned) =>
        (disk.meta.m.is_recompute /\ ~disk.emb.exists)

\* C8: no command loads an IndexSearcher (the vector-search path) on an
\* index whose meta says it is pruned.
C8_NoVectorSearchWhenPruned ==
    (call.op = "load" /\ call.is_pruned /\ ~hist.failed) =>
        call.searcher # "index"

\* the writer is inside PassageStoreWriter::finish
InFinish == wpc \in {"finish_flushed", "finish_truncated"}

----------------------------------------------------------------------------
(* Claims about the library *)

\* what open followed by get(id) returns on the files as they are
Get(id) == PassageStoreGet(disk, PassageStoreOpen(disk).offsets, id)

\* C4: after add calls and finish, open followed by get(id) returns, for
\* every passage that was added, the id, text and metadata passed to add,
\* also after more passages were appended through open_for_append
C4_RoundTrip ==
    (call.op \in {"built", "finish"} /\ ~hist.failed) =>
        \A i \in 1..Len(hist.added) :
            Get(hist.added[i].id).ok /\ Get(hist.added[i].id).passage = hist.added[i]

\* C5: PassageStoreWriter::add fails when the id is already in the writer's
\* offset map, and the failed call leaves the offset map, the JSONL content
\* and the current offset as they were
C5_DuplicateAddFails ==
    (call.op = "add" /\ call.dup) => (~call.ok /\ call.kept)

\* C6: the i-th successful add_passage call (0-based) is held at position i
\* of the builder, and after build() its embedding is stored under backend
\* label i, its id is line i of the ids file and, in recompute mode, its
\* embedding is row i of the embeddings file
C6_LabelsFollowCalls ==
    LET n == Len(hist.calls) IN
    /\ (wpc = "adding" /\ w.kind = "build") =>
           /\ w.b.count = n
           /\ w.b.ids = [i \in 1..n |-> hist.calls[i].id]
           /\ w.b.embeddings = [i \in 1..n |-> hist.calls[i].embedding]
    /\ call.op = "built" =>
           /\ Lines(disk.ids.toks) = [i \in 1..n |-> hist.calls[i].id]
           /\ DOMAIN BackendLoad(disk).vecs = 0..(n - 1)
           /\ \A L \in 0..(n - 1) :
                  /\ BackendLoad(disk).vecs[L] = hist.calls[L + 1].embedding
                  /\ LoadIdMap(disk, EmptyMap)[L + 1] = hist.calls[L + 1].id
                  /\ call.recompute =>
                         EmbRow(disk, Dim, L) = hist.calls[L + 1].embedding
           /\ call.recompute => EmbRows(disk, Dim) = n

\* a build of two passages with different ids and different embeddings,
\* over the files of an earlier build, in recompute mode
C6_Witness ==
    /\ call.op = "built" /\ call.recompute
    /\ hist.runs = MaxLibRuns
    /\ Len(hist.calls) = MaxBuildChunks
    /\ hist.calls[1].id # hist.calls[2].id
    /\ hist.calls[1].embedding # hist.calls[2].embedding

\* C10: add_passage with an embedding whose length is not the builder's
\* dimensions fails and changes neither the files nor the builder, and a
\* successful add_passage takes the position that follows the successful
\* calls before it, whatever calls failed in between
C10_DimensionMismatch ==
    [][call'.op = "add_passage" =>
         /\ Len(call'.embedding) # w.b.dimensions =>
                ~call'.ok /\ disk' = disk /\ w' = w /\ wpc' = wpc
         /\ call'.ok =>
                /\ w'.b.count = Len(hist.calls) + 1
                /\ w'.b.ids[Len(hist.calls) + 1] = call'.id
                /\ w'.b.embeddings[Len(hist.calls) + 1] = call'.embedding]_vars

\* a successful add_passage, after one that succeeded and one that failed
C10_Witness ==
    /\ call.op = "add_passage" /\ call.ok
    /\ hist.rejected
    /\ Len(hist.calls) = MaxBuildChunks

----------------------------------------------------------------------------
(* Claims about searching, and about update and prune as whole commands *)

\* C11: one IndexSearcher builds its Bm25Scorer at most once, however many
\* hybrid search_with_options calls it serves
C11_ScorerBuiltOnce == wpc = "serving" => w.scorers <= 1

\* C12: update on an index whose meta names the diskann backend fails, and
\* no file of the index is modified
C12_DiskAnnUpdateRefused ==
    (call.op = "update" /\ call.backend_name = "diskann") =>
        (~call.ok /\ call.kept)

\* update of a diskann index that holds passages, with a new chunk to add
C12_Witness ==
    /\ call.op = "update" /\ call.backend_name = "diskann"
    /\ call.chunks > 0
    /\ disk.meta.m.passage_count > 0
    /\ disk.diskann.exists

\* C13: a second prune right after a prune of an index built with recompute
\* succeeds, modifies no file, and leaves the embeddings file absent and
\* is_pruned set
C13_PruneTwice ==
    (call.op = "prune" /\ call.twice /\ call.confirmed
       /\ disk.meta.exists /\ disk.meta.m.is_recompute) =>
        /\ call.ok /\ call.kept
        /\ ~disk.emb.exists
        /\ disk.meta.m.is_pruned

\* the second of two prunes of an index built with recompute over passages
C13_Witness ==
    /\ call.op = "prune" /\ call.twice /\ call.confirmed /\ call.ok
    /\ disk.meta.exists /\ disk.meta.m.is_recompute /\ disk.meta.m.is_pruned
    /\ disk.meta.m.passage_count > 0

\* a search_with_options call without filter and without hybrid
PlainCall == call.op = "search" /\ ~call.opts.hybrid /\ call.opts.filter = NoFilter

\* the passages added by the build, when their embeddings differ pairwise
\* and the build is the only command that wrote to the directory
DistinctBuilt ==
    /\ ~hist.failed /\ hist.runs = 1
    /\ \A i, j \in 1..Len(hist.calls) :
           hist.calls[i].embedding = hist.calls[j].embedding => i = j

\* C14 as stated: after add_passage calls with pairwise distinct embeddings
\* and build(), search(emb_i, 1) returns exactly the id of passage i
C14_SelfRetrieval ==
    (PlainCall /\ call.opts.top_k = 1 /\ DistinctBuilt) =>
        \A i \in 1..Len(hist.calls) :
            hist.calls[i].embedding = call.query =>
                /\ Len(call.results) = 1
                /\ call.results[1].id = hist.calls[i].id

\* C14, amended: the same when, besides being pairwise distinct, the stored
\* embeddings all have the norm of the query (as unit vectors have)
C14_SelfRetrievalEqualNorm ==
    (PlainCall /\ call.opts.top_k = 1 /\ DistinctBuilt
       /\ \A j \in 1..Len(hist.calls) :
              Dot(hist.calls[j].embedding, hist.calls[j].embedding)
                  = Dot(call.query, call.query)) =>
        \A i \in 1..Len(hist.calls) :
            hist.calls[i].embedding = call.query =>
                /\ Len(call.results) = 1
                /\ call.results[1].id = hist.calls[i].id

\* search(emb_2, 1) over two passages with distinct embeddings of one norm
C14_Witness ==
    /\ PlainCall /\ call.opts.top_k = 1 /\ DistinctBuilt
    /\ Len(hist.calls) = 2
    /\ hist.calls[2].embedding = call.query
    /\ Dot(hist.calls[1].embedding, hist.calls[1].embedding) = Dot(call.query, call.query)
    /\ Len(call.results) = 1

\* the ids of the first result of a result list (none when it is empty)
FirstId(results) == [i \in 1..(IF Len(results) > 0 THEN 1 ELSE 0) |-> results[i].id] \o <<>>

\* C15: a hybrid search with hybrid_alpha = 1.0 has the top-1 result that
\* the search without hybrid has on the same searcher for the same query
\* embedding, top_k and filter (under some order of equidistant vectors)
C15_AlphaOneIsVectorOnly ==
    (call.op = "search" /\ call.opts.hybrid /\ call.opts.hybrid_alpha = 1
       /\ call.opts.top_k > 0 /\ ~hist.failed) =>
        \E low \in TieBreaks :
            FirstId(call.results) =
                FirstId(SearchWithOptions(w.s, disk, call.query,
                                          [call.opts EXCEPT !.hybrid = FALSE], low).results)

\* the labels of a sequence of candidates
Labels(cands) == {cands[i].idx : i \in 1..Len(cands)}

\* C16: in a hybrid search fetch_k is 5 * top_k, and the candidates handed
\* to hybrid_rerank are the at most fetch_k vector candidates with their
\* backend scores, followed by the top fetch_k BM25 passages missing from
\* them, each once and with score 0; no label occurs twice
C16_HybridCandidates ==
    (call.op = "search" /\ call.opts.hybrid) =>
        /\ call.fetch_k = 5 * call.opts.top_k
        /\ Len(call.vector_results) <= call.fetch_k
        /\ Len(call.bm25_top) <= call.fetch_k
        /\ Labels(call.candidates) = Labels(call.vector_results) \cup Labels(call.bm25_top)
        /\ \A i, j \in 1..Len(call.candidates) :
               call.candidates[i].idx = call.candidates[j].idx => i = j
        /\ Len(call.candidates) >= Len(call.vector_results)
        /\ \A i \in 1..Len(call.candidates) :
               IF i <= Len(call.vector_results)
               THEN call.candidates[i] = call.vector_results[i]
               ELSE /\ call.candidates[i].score = Frac(0, 1)
                    /\ call.candidates[i].idx \in Labels(call.bm25_top)

\* a hybrid search of six passages with fetch_k = 5: a BM25 passage is
\* missing from the vector candidates, another is among them
C16_Witness ==
    /\ call.op = "search" /\ call.opts.hybrid
    /\ Len(call.vector_results) = 5
    /\ Len(call.candidates) = 6
    /\ Labels(call.bm25_top) \cap Labels(call.vector_results) # {}
    /\ Labels(call.bm25_top) \ Labels(call.vector_results) # {}

\* the passage store's answer for the i-th ranked candidate of the call
Loaded(i) == PassageStoreGet(disk, w.s.offsets, IdOf(w.s, call.ranked[i].idx))

\* the positions of the ranked candidates that load and match the filter
Eligible ==
    {i \in 1..Len(call.ranked) :
        /\ Loaded(i).ok
        /\ \/ call.opts.filter = NoFilter
           \/ FilterMatches(call.opts.filter, Loaded(i).passage.metadata)}

\* the k-th position of a set of positions
Nth(S, k) == CHOOSE p \in S : Cardinality({e \in S : e <= p}) = k

\* the results are the first top_k eligible candidates, in ranked order
FirstEligible ==
    /\ Len(call.results) = (IF Cardinality(Eligible) < call.opts.top_k
                            THEN Cardinality(Eligible) ELSE call.opts.top_k)
    /\ \A k \in 1..Len(call.results) :
           /\ call.results[k].id = IdOf(w.s, call.ranked[Nth(Eligible, k)].idx)
           /\ call.results[k].score = call.ranked[Nth(Eligible, k)].score
           /\ call.results[k].metadata = Loaded(Nth(Eligible, k)).passage.metadata

\* C17: with a filter every result matches it, and the results are the
\* first top_k matching candidates in ranked order, or all of them when
\* the fetched candidates hold fewer than top_k
C17_FilteredInRankedOrder ==
    (call.op = "search" /\ call.opts.filter # NoFilter) =>
        /\ \A k \in 1..Len(call.results) :
               FilterMatches(call.opts.filter, call.results[k].metadata)
        /\ FirstEligible

\* a filtered search that passes over a candidate that does not match and
\* emits one ranked after it
C17_Witness ==
    /\ call.op = "search" /\ call.opts.filter # NoFilter
    /\ Len(call.results) > 0
    /\ \E i \in 1..Len(call.ranked) :
           /\ Loaded(i).ok
           /\ ~FilterMatches(call.opts.filter, Loaded(i).passage.metadata)
           /\ \E j \in Eligible : i < j /\ call.results[1].id = IdOf(w.s, call.ranked[j].idx)

\* the index holds N passages in every file: complete builds wrote it and
\* metadata, passages, offsets, ids and graph agree on N
ConsistentIndex(N) ==
    /\ ~hist.failed /\ ~hist.unfinished
    /\ disk.meta.exists /\ disk.meta.m.passage_count = N
    /\ Len(disk.jsonl.lines) = N
    /\ Cardinality(DOMAIN w.s.offsets) = N
    /\ Len(w.s.id_map) = N
    /\ Cardinality(DOMAIN w.s.vecs) = N

\* C18: a search never returns more than top_k results, and a search
\* without filter and hybrid on a consistent index of N passages returns
\* min(top_k, N) of them
C18_ResultCount ==
    call.op = "search" =>
        /\ call.ok
        /\ Len(call.results) <= call.opts.top_k
        /\ \A N \in 0..(MaxFileChunks * MaxCopies) :
               (PlainCall /\ ConsistentIndex(N)) =>
                   Len(call.results) = (IF call.opts.top_k < N THEN call.opts.top_k ELSE N)

\* a search for more passages than the index holds returns them all
C18_Witness ==
    /\ PlainCall /\ ConsistentIndex(1)
    /\ call.opts.top_k = 2
    /\ Len(call.results) = 1

\* C19: when a ranked candidate cannot be loaded from the passage store,
\* the search still returns Ok, with the candidates that load (and match
\* the filter, if any) in ranked order, up to top_k
C19_FailedHydrationSkipped ==
    (call.op = "search" /\ \E i \in 1..Len(call.ranked) : ~Loaded(i).ok) =>
        /\ call.ok
        /\ FirstEligible

\* a search that passes over a candidate it cannot load and returns one
\* ranked after it
C19_Witness ==
    /\ call.op = "search" /\ call.ok
    /\ Len(call.results) > 0
    /\ \E i \in 1..Len(call.ranked) :
           /\ ~Loaded(i).ok
           /\ \E j \in Eligible : i < j /\ call.results[Len(call.results)].id = IdOf(w.s, call.ranked[j].idx)

\* a RecomputeSearcher answers on an index that a build with recompute
\* wrote and a prune then changed, the IndexSearcher's answers before the
\* prune being on record
RecomputeAfterPrune ==
    /\ call.op = "recompute" /\ call.top_k > 0
    /\ ~hist.failed
    /\ disk.meta.m.is_recompute
    /\ DOMAIN hist.before = Queries

\* C20 as stated: the RecomputeSearcher's top-1 id is the top-1 id the
\* IndexSearcher returned before the prune, for every query embedding
C20_SameTopOne ==
    RecomputeAfterPrune =>
        /\ call.ok
        /\ hist.before[call.query] = {FirstId(call.results)}

\* C20, amended: the same when one stored vector alone has the greatest
\* inner product with the query embedding
C20_SameTopOneUnique ==
    (RecomputeAfterPrune
       /\ \E i \in 1..Len(hist.calls) : \A j \in 1..Len(hist.calls) :
              j # i => Dot(call.query, hist.calls[j].embedding)
                         < Dot(call.query, hist.calls[i].embedding)) =>
        /\ call.ok
        /\ hist.before[call.query] = {FirstId(call.results)}

\* a RecomputeSearcher whose top-1 is not the first passage of the index
C20_Witness ==
    /\ RecomputeAfterPrune /\ call.ok
    /\ Len(hist.calls) > 1
    /\ \A j \in 1..(Len(hist.calls) - 1) :
           Dot(call.query, hist.calls[j].embedding)
               < Dot(call.query, hist.calls[Len(hist.calls)].embedding)
    /\ FirstId(call.results) = <<hist.calls[Len(hist.calls)].id>>
    /\ hist.before[call.query] = {FirstId(call.results)}

----------------------------------------------------------------------------
(* The IndexMeta sidecar as build writes it and as search and update read  *)
(* it: format version and embedding mode                                   *)

\* commands that write to the index directory in one history
MaxMetaRuns == 2

\* values of --embedding-mode that clap lets through, without and with the
\* local-embeddings feature
ModeFlags(local_feature) ==
    {"openai", "ollama", "gemini"} \cup (IF local_feature THEN {"local"} ELSE {})

\* values of embedding.provider in the config file: any string; the default
\* is "ollama"
Providers == {"openai", "ollama", "gemini", "lmstudio", "local", "cohere"}

\* build::run, embedding_mode_str: the config file's provider stands in for
\* the flag when the flag has its default value
EmbeddingModeStr(flag, provider) ==
    IF flag = "openai" /\ provider # "openai" THEN provider ELSE flag

\* build::run, the match on embedding_mode_str
BuildTakesMode(mode, local_feature) ==
    \/ mode \in {"openai", "lmstudio", "ollama", "gemini"}
    \/ local_feature /\ mode = "local"

\* search::run, the match on meta.embedding_mode
SearchTakesMode(mode) == mode \in {"openai", "ollama", "gemini"}

\* update::run, the match on meta.embedding_mode
UpdateTakesMode(mode) == mode \in {"openai", "ollama"}

\* the metadata format versions an index directory can carry: the one this
\* program writes, and one of a later program
Versions == {"1.0", "2.0"}

\* build::run with the embedding mode taken from flag and config file; the
\* directory is created before the mode is looked at
BuildRunMode(d, chunks, recompute, flag, provider, local_feature) ==
    LET mode == EmbeddingModeStr(flag, provider) IN
    IF ~BuildTakesMode(mode, local_feature)
    THEN [ok |-> FALSE, disk |-> [d EXCEPT !.dir = TRUE]]
    ELSE [ok |-> TRUE,
          disk |-> [BuildRun(d, chunks, recompute, "hnsw") EXCEPT
                      !.meta.m.embedding_mode = mode]]

\* search::run without --hybrid, --expand and --filter, from IndexMeta::load
\* to the results; error names the step that failed
SearchRun(d, query_embedding, top_k, low) ==
    IF ~d.meta.exists THEN [ok |-> FALSE, error |-> "meta", results |-> <<>>]
    ELSE IF ~SearchTakesMode(d.meta.m.embedding_mode)
    THEN [ok |-> FALSE, error |-> "mode", results |-> <<>>]
    ELSE IF d.meta.m.is_pruned
    THEN LET r == RecomputeSearch(d, query_embedding, top_k, NoFilter) IN
         IF r.ok THEN [ok |-> TRUE, error |-> "none", results |-> r.results]
         ELSE [ok |-> FALSE, error |-> "load", results |-> <<>>]
    ELSE LET l == LoadSearcher(d, d.meta.m) IN
         IF ~l.ok THEN [ok |-> FALSE, error |-> "load", results |-> <<>>]
         ELSE [ok |-> TRUE, error |-> "none",
               results |-> SearchWithOptions(l.s, d, query_embedding,
                               [top_k |-> top_k, filter |-> NoFilter, hybrid |-> FALSE,
                                hybrid_alpha |-> 1, query_text |-> ""], low).results]

\* the step at which update::run bails, if it does
UpdateError(d, chunks) ==
    IF ~d.meta.exists THEN "meta"
    ELSE IF d.meta.m.backend_name # "hnsw" THEN "backend"
    ELSE IF ~UpdateTakesMode(d.meta.m.embedding_mode) THEN "mode"
    ELSE IF ~UpdateRun(d, chunks).ok THEN "append"
    ELSE "none"

\* build without --force
MBuild(chunks, recompute, flag, provider, local_feature) ==
    /\ wpc = "idle"
    /\ hist.runs < MaxMetaRuns
    /\ ~disk.dir
    /\ LET r == BuildRunMode(disk, chunks, recompute, flag, provider, local_feature) IN
         /\ disk' = r.disk
         /\ call' = [op |-> "build", ok |-> r.ok]
         /\ hist' = [hist EXCEPT !.runs = @ + 1, !.failed = @ \/ ~r.ok]
    /\ UNCHANGED <<wpc, w>>

\* the index directory is replaced by one that a program of another
\* metadata format version wrote over the same documents
MForeign(version) ==
    /\ wpc = "idle"
    /\ disk.meta.exists
    /\ disk.meta.m.version # version
    /\ disk' = [disk EXCEPT !.meta.m.version = version]
    /\ call' = [op |-> "foreign", ok |-> TRUE]
    /\ UNCHANGED <<wpc, w, hist>>

\* leann search
MSearch(query, top_k, low) ==
    /\ wpc = "idle"
    /\ disk.dir
    /\ LET r == SearchRun(disk, query, top_k, low) IN
         call' = [op |-> "search_cmd", ok |-> r.ok, error |-> r.error,
                  query |-> query, top_k |-> top_k, results |-> r.results]
    /\ UNCHANGED <<disk, wpc, w, hist>>

\* leann update
MUpdate(chunks) ==
    /\ wpc = "idle"
    /\ disk.dir
    /\ hist.runs < MaxMetaRuns
    /\ disk.meta.m.passage_count + Len(chunks) <= MaxPassages
    /\ LET r == UpdateRun(disk, chunks) IN
         /\ disk' = r.disk
         /\ call' = [op |-> "update_cmd", ok |-> r.ok,
                     error |-> UpdateError(disk, chunks), chunks |-> Len(chunks)]
         /\ hist' = [hist EXCEPT !.runs = IF r.disk # disk THEN @ + 1 ELSE @]
    /\ UNCHANGED <<wpc, w>>

NextMeta ==
    \/ \E chunks \in SeqsUpTo(DocInputs, MaxBuildChunks), recompute \in BOOLEAN,
          local_feature \in BOOLEAN :
          \E flag \in ModeFlags(local_feature), provider \in Providers :
             MBuild(chunks, recompute, flag, provider, local_feature)
    \/ \E version \in Versions : MForeign(version)
    \/ \E query \in Queries, top_k \in 0..MaxTopK, low \in TieBreaks :
          MSearch(query, top_k, low)
    \/ \E chunks \in SeqsUpTo(DocInputs, MaxUpdateChunks) : MUpdate(chunks)

SpecMeta == Init /\ [][NextMeta]_vars

\* C21: a search command on an index whose meta.version is not "1.0" fails
\* and returns no result
C21_UnknownVersionRejected ==
    (call.op = "search_cmd" /\ disk.meta.exists /\ disk.meta.m.version # "1.0") =>
        ~call.ok /\ call.results = <<>>

\* C30: on an index that build completed, neither search nor update fails
\* for an embedding mode it does not know
C30_ModeAccepted ==
    (call.op \in {"search_cmd", "update_cmd"} /\ ~hist.failed /\ disk.meta.exists) =>
        call.error # "mode"

----------------------------------------------------------------------------
(* Metadata filters: strings are sequences of characters, JSON values are  *)
(* records tagged with their kind                                          *)

\* str::starts_with, str::ends_with
StartsWith(s, p) == Len(p) <= Len(s) /\ SubSeq(s, 1, Len(p)) = p
EndsWith(s, p) == Len(p) <= Len(s) /\ SubSeq(s, Len(s) - Len(p) + 1, Len(s)) = p

\* str::find: the position (from 1) of the first occurrence of p in s, or 0
Find(s, p) ==
    LET at == {i \in 1..(Len(s) - Len(p) + 1) : SubSeq(s, i, i + Len(p) - 1) = p}
    IN IF at = {} THEN 0 ELSE CHOOSE i \in at : \A j \in at : i <= j

\* str::contains
Contains(s, p) == Find(s, p) # 0

RECURSIVE Split(_, _)
\* str::split on a non-empty pattern
Split(s, p) ==
    LET i == Find(s, p) IN
    IF i = 0 THEN <<s>>
    ELSE <<SubSeq(s, 1, i - 1)>> \o Split(SubSeq(s, i + Len(p), Len(s)), p)

\* str::splitn(2, p)
SplitN2(s, p) ==
    LET i == Find(s, p) IN
    IF i = 0 THEN <<s>>
    ELSE <<SubSeq(s, 1, i - 1), SubSeq(s, i + Len(p), Len(s))>>

RECURSIVE Trim(_)
\* str::trim
Trim(s) ==
    IF s = <<>> THEN s
    ELSE IF Head(s) = " " THEN Trim(Tail(s))
    ELSE IF s[Len(s)] = " " THEN Trim(SubSeq(s, 1, Len(s) - 1))
    ELSE s

\* the characters of the model's strings in the order of their code points
CodePoints == <<" ", "!", "$", "*", ",", ".", "0", "1", "2", "3", "4", "5",
                "6", "7", "8", "9", ":", "<", "=", ">", "?", "A", "D", "N",
                "O", "R", "[", "]", "^", "_", "a", "b", "c", "d", "e", "f",
                "g", "h", "i", "j", "k", "l", "m", "n", "o", "p", "q", "r",
                "s", "t", "u", "v", "w", "x", "y", "z", "~">>

CodePoint(c) == CHOOSE i \in 1..Len(CodePoints) : CodePoints[i] = c

RECURSIVE StrCmp(_, _)
\* str::cmp as -1, 0, 1
StrCmp(a, b) ==
    IF a = <<>> /\ b = <<>> THEN 0
    ELSE IF a = <<>> THEN -1
    ELSE IF b = <<>> THEN 1
    ELSE IF CodePoint(Head(a)) < CodePoint(Head(b)) THEN -1
    ELSE IF CodePoint(Head(a)) > CodePoint(Head(b)) THEN 1
    ELSE StrCmp(Tail(a), Tail(b))

\* serde_json::Value
JNull == [kind |-> "null"]
JBool(b) == [kind |-> "bool", b |-> b]
JNum(n) == [kind |-> "num", n |-> n]
JStr(s) == [kind |-> "str", s |-> s]
JArr(items) == [kind |-> "arr", items |-> items]
JObj(fields) == [kind |-> "obj", fields |-> fields]

\* Option<&Value>
None == [some |-> FALSE]
Some(v) == [some |-> TRUE, v |-> v]

RECURSIVE Walk(_, _)
\* get_nested_value, the loop over the parts of the path
Walk(current, parts) ==
    IF parts = <<>> THEN Some(current)
    ELSE IF current.kind = "obj" /\ Head(parts) \in DOMAIN current.fields
    THEN Walk(current.fields[Head(parts)], Tail(parts))
    ELSE None

\* get_nested_value
GetNestedValue(metadata, path) == Walk(metadata, Split(path, <<".">>))

\* values_equal
ValuesEqual(a, b) ==
    CASE a.kind = "str" /\ b.kind = "str"   -> a.s = b.s
      [] a.kind = "num" /\ b.kind = "num"   -> a.n = b.n
      [] a.kind = "bool" /\ b.kind = "bool" -> a.b = b.b
      [] a.kind = "null" /\ b.kind = "null" -> TRUE
      [] OTHER -> FALSE

\* compare_values
CompareValues(a, b) ==
    IF a.kind = "num" /\ b.kind = "num"
    THEN (IF a.n < b.n THEN -1 ELSE IF a.n > b.n THEN 1 ELSE 0)
    ELSE IF a.kind = "str" /\ b.kind = "str" THEN StrCmp(a.s, b.s)
    ELSE 0

\* Value::as_str().unwrap_or("")
AsStrOrEmpty(v) == IF v.kind = "str" THEN v.s ELSE <<>>

\* a FilterCondition::matches that is false for every operator when the
\* field is missing: C23 must tell it apart
ConditionMatchesNeverOnMissing(cond, metadata) ==
    LET fv == GetNestedValue(metadata, cond.field) IN
    CASE cond.op = "exists" -> fv.some
      [] cond.op = "eq"  -> fv.some /\ ValuesEqual(fv.v, cond.value)
      [] cond.op = "ne"  -> fv.some /\ ~ValuesEqual(fv.v, cond.value)
      [] cond.op = "gt"  -> fv.some /\ CompareValues(fv.v, cond.value) > 0
      [] cond.op = "gte" -> fv.some /\ CompareValues(fv.v, cond.value) >= 0
      [] cond.op = "lt"  -> fv.some /\ CompareValues(fv.v, cond.value) < 0
      [] cond.op = "lte" -> fv.some /\ CompareValues(fv.v, cond.value) <= 0
      [] cond.op = "in"  ->
            /\ cond.value.kind = "arr" /\ fv.some
            /\ \E i \in 1..Len(cond.value.items) : ValuesEqual(fv.v, cond.value.items[i])
      [] cond.op = "not_in" ->
            /\ cond.value.kind = "arr" /\ fv.some
            /\ ~\E i \in 1..Len(cond.value.items) : ValuesEqual(fv.v, cond.value.items[i])
      [] cond.op = "contains" ->
            fv.some /\ fv.v.kind = "str" /\ Contains(fv.v.s, AsStrOrEmpty(cond.value))
      [] cond.op = "starts_with" ->
            fv.some /\ fv.v.kind = "str" /\ StartsWith(fv.v.s, AsStrOrEmpty(cond.value))
      [] cond.op = "ends_with" ->
            fv.some /\ fv.v.kind = "str" /\ EndsWith(fv.v.s, AsStrOrEmpty(cond.value))

\* FilterCondition::matches
ConditionMatches(cond, metadata) ==
    LET fv == GetNestedValue(metadata, cond.field) IN
    CASE cond.op = "exists" -> fv.some
      [] cond.op = "eq"  -> fv.some /\ ValuesEqual(fv.v, cond.value)
      [] cond.op = "ne"  -> ~fv.some \/ ~ValuesEqual(fv.v, cond.value)
      [] cond.op = "gt"  -> fv.some /\ CompareValues(fv.v, cond.value) > 0
      [] cond.op = "gte" -> fv.some /\ CompareValues(fv.v, cond.value) >= 0
      [] cond.op = "lt"  -> fv.some /\ CompareValues(fv.v, cond.value) < 0
      [] cond.op = "lte" -> fv.some /\ CompareValues(fv.v, cond.value) <= 0
      [] cond.op = "in"  ->
            /\ cond.value.kind = "arr" /\ fv.some
            /\ \E i \in 1..Len(cond.value.items) : ValuesEqual(fv.v, cond.value.items[i])
      [] cond.op = "not_in" ->
            \/ cond.value.kind # "arr"
            \/ ~fv.some
            \/ ~\E i \in 1..Len(cond.value.items) : ValuesEqual(fv.v, cond.value.items[i])
      [] cond.op = "contains" ->
            fv.some /\ fv.v.kind = "str" /\ Contains(fv.v.s, AsStrOrEmpty(cond.value))
      [] cond.op = "starts_with" ->
            fv.some /\ fv.v.kind = "str" /\ StartsWith(fv.v.s, AsStrOrEmpty(cond.value))
      [] cond.op = "ends_with" ->
            fv.some /\ fv.v.kind = "str" /\ EndsWith(fv.v.s, AsStrOrEmpty(cond.value))

RECURSIVE Matches(_, _)
\* MetadataFilter::matches
Matches(filter, metadata) ==
    CASE filter.kind = "cond" -> ConditionMatches(filter.cond, metadata)
      [] filter.kind = "and"  ->
            \A i \in 1..Len(filter.and) : Matches(filter.and[i], metadata)
      [] filter.kind = "or"   ->
            \E i \in 1..Len(filter.or) : Matches(filter.or[i], metadata)
\* the digits of a decimal number
Digits == <<"0", "1", "2", "3", "4", "5", "6", "7", "8", "9">>

DigitValue(c) == (CHOOSE i \in 1..10 : Digits[i] = c) - 1

RECURSIVE Decimal(_, _)
\* the number a sequence of digits stands for
Decimal(s, acc) ==
    IF s = <<>> THEN acc ELSE Decimal(Tail(s), 10 * acc + DigitValue(Head(s)))

\* parse_value on text without sign, '.', exponent, inf or nan: digits are
\* an i64, "true" and "false" are Bool, everything else is a String
ParseValue(s) ==
    IF s # <<>> /\ \A i \in 1..Len(s) : \E d \in 1..10 : Digits[d] = s[i]
    THEN JNum(Decimal(s, 0))
    ELSE IF s = <<"t", "r", "u", "e">> THEN JBool(TRUE)
    ELSE IF s = <<"f", "a", "l", "s", "e">> THEN JBool(FALSE)
    ELSE JStr(s)

\* MetadataFilter::Condition
Condition(field, op, value) ==
    [kind |-> "cond", cond |-> [field |-> field, op |-> op, value |-> value]]

\* parse_single, "field in [a,b,c]" and "field not_in [a,b,c]": the values
\* between the brackets
ListValues(rest) ==
    LET items == Split(SubSeq(rest, 1, Find(rest, <<"]">>) - 1), <<",">>)
    IN JArr([i \in 1..Len(items) |-> ParseValue(Trim(items[i]))] \o <<>>)

\* parse_single, the glob patterns of field=value and field:value
GlobOrEq(field, value) ==
    IF Contains(value, <<"*">>) /\ StartsWith(value, <<"*">>)
       /\ EndsWith(value, <<"*">>) /\ Len(value) > 2
    THEN Some(Condition(field, "contains", JStr(SubSeq(value, 2, Len(value) - 1))))
    ELSE IF Contains(value, <<"*">>) /\ StartsWith(value, <<"*">>)
    THEN Some(Condition(field, "ends_with", JStr(SubSeq(value, 2, Len(value)))))
    ELSE IF Contains(value, <<"*">>) /\ EndsWith(value, <<"*">>)
    THEN Some(Condition(field, "starts_with", JStr(SubSeq(value, 1, Len(value) - 1))))
    ELSE Some(Condition(field, "eq", ParseValue(value)))

\* parse_single, a two-part split on an operator the text contains
SplitCondition(s, sym, op, as_string) ==
    LET p == SplitN2(s, sym) IN
    Some(Condition(p[1], op, IF as_string THEN JStr(p[2]) ELSE ParseValue(p[2])))

\* MetadataFilter::parse_single
ParseSingle(filter_str) ==
    LET s     == Trim(filter_str)
        in_at == Find(s, <<" ", "i", "n", " ", "[">>)
        in_rest == SubSeq(s, in_at + 5, Len(s))
        ni_at == Find(s, <<" ", "n", "o", "t", "_", "i", "n", " ", "[">>)
        ni_rest == SubSeq(s, ni_at + 9, Len(s))
    IN
    IF EndsWith(s, <<"?">>)
    THEN Some(Condition(SubSeq(s, 1, Len(s) - 1), "exists", JNull))
    ELSE IF in_at # 0 /\ Contains(in_rest, <<"]">>)
    THEN Some(Condition(Trim(SubSeq(s, 1, in_at - 1)), "in", ListValues(in_rest)))
    ELSE IF ni_at # 0 /\ Contains(ni_rest, <<"]">>)
    THEN Some(Condition(Trim(SubSeq(s, 1, ni_at - 1)), "not_in", ListValues(ni_rest)))
    ELSE IF Contains(s, <<"~">>) THEN SplitCondition(s, <<"~">>, "contains", TRUE)
    ELSE IF Contains(s, <<"^">>) /\ ~Contains(s, <<">", "=">>)
    THEN SplitCondition(s, <<"^">>, "starts_with", TRUE)
    ELSE IF Contains(s, <<"$">>) THEN SplitCondition(s, <<"$">>, "ends_with", TRUE)
    ELSE IF Contains(s, <<"!", "=">>) THEN SplitCondition(s, <<"!", "=">>, "ne", FALSE)
    ELSE IF Contains(s, <<">", "=">>) THEN SplitCondition(s, <<">", "=">>, "gte", FALSE)
    ELSE IF Contains(s, <<"<", "=">>) THEN SplitCondition(s, <<"<", "=">>, "lte", FALSE)
    ELSE IF Contains(s, <<">">>) THEN SplitCondition(s, <<">">>, "gt", FALSE)
    ELSE IF Contains(s, <<"<">>) THEN SplitCondition(s, <<"<">>, "lt", FALSE)
    ELSE IF Contains(s, <<"=">>)
    THEN GlobOrEq(SplitN2(s, <<"=">>)[1], SplitN2(s, <<"=">>)[2])
    ELSE IF Contains(s, <<":">>)
    THEN GlobOrEq(SplitN2(s, <<":">>)[1], SplitN2(s, <<":">>)[2])
    ELSE None

\* the bracket depth that the loops of parse have before the character at i
Depth(s, i) ==
    Cardinality({j \in 1..(i - 1) : s[j] = "["}) - Cardinality({j \in 1..(i - 1) : s[j] = "]"})

\* the positions of the commas at depth 0
OuterCommas(s) == {i \in 1..Len(s) : s[i] = "," /\ Depth(s, i) = 0}

\* parse, has_comma_outside_brackets
HasCommaOutsideBrackets(s) == OuterCommas(s) # {}

\* parse, the split at the commas outside brackets: the text after the last
\* comma is a part when it is not empty
SplitCommas(s) ==
    LET at      == SeqOfSet(OuterCommas(s), TRUE)
        from(k) == IF k = 1 THEN 1 ELSE at[k - 1] + 1
        parts   == [k \in 1..Len(at) |-> SubSeq(s, from(k), at[k] - 1)] \o <<>>
        current == SubSeq(s, from(Len(at) + 1), Len(s))
    IN IF current # <<>> THEN Append(parts, current) ELSE parts

RECURSIVE Kept(_)
\* Iterator::filter_map over Option: the values of the Some elements
Kept(options) ==
    IF options = <<>> THEN <<>>
    ELSE (IF Head(options).some THEN <<Head(options).v>> ELSE <<>>) \o Kept(Tail(options))

\* parse, the AND branch
ParseAnd(s) ==
    LET parts   == IF Contains(s, <<" ", "A", "N", "D", " ">>)
                   THEN Split(s, <<" ", "A", "N", "D", " ">>)
                   ELSE SplitCommas(s)
        filters == Kept([i \in 1..Len(parts) |-> ParseSingle(Trim(parts[i]))] \o <<>>)
    IN IF Len(filters) > 1 THEN Some([kind |-> "and", and |-> filters])
       ELSE IF Len(filters) = 1 THEN Some(filters[1])
       ELSE None

RECURSIVE Parse(_)
\* MetadataFilter::parse
Parse(filter_str) ==
    LET s == Trim(filter_str) IN
    IF Contains(s, <<" ", "O", "R", " ">>)
    THEN LET parts   == Split(s, <<" ", "O", "R", " ">>)
             filters == Kept([i \in 1..Len(parts) |-> Parse(Trim(parts[i]))] \o <<>>)
         IN IF Len(filters) > 1 THEN Some([kind |-> "or", or |-> filters])
            ELSE IF Len(filters) = 1 THEN Some(filters[1])
            ELSE None
    ELSE IF Contains(s, <<" ", "A", "N", "D", " ">>) \/ HasCommaOutsideBrackets(s)
    THEN ParseAnd(s)
    ELSE ParseSingle(s)
\* conditions AND-ed in one filter string
MaxConds == 3

RECURSIVE JoinWith(_, _)
\* the texts of parts with seps[i] between part i and part i + 1
JoinWith(parts, seps) ==
    IF Len(parts) = 0 THEN <<>>
    ELSE IF Len(parts) = 1 THEN parts[1]
    ELSE parts[1] \o seps[1] \o JoinWith(Tail(parts), Tail(seps))

S_type  == <<"t", "y", "p", "e">>
S_lines == <<"l", "i", "n", "e", "s">>
S_code  == <<"c", "o", "d", "e">>
S_doc   == <<"d", "o", "c">>

\* the single conditions filter strings are made of:
\* type=code, lines>50, t? and type in [code,doc]
SingleConditions ==
    { S_type \o <<"=">> \o S_code,
      S_lines \o <<">", "5", "0">>,
      <<"t", "?">>,
      S_type \o <<" ", "i", "n", " ", "[">> \o S_code \o <<",">> \o S_doc \o <<"]">> }

\* the separators of AND-ed conditions
AndSeparators == { <<",">>, <<" ", "A", "N", "D", " ">> }

\* the metadata of passages
Metadatas ==
    { JObj(S_type :> JStr(S_code) @@ S_lines :> JNum(100)),
      JObj(S_type :> JStr(S_code) @@ S_lines :> JNum(10)),
      JObj(S_type :> JStr(S_doc) @@ S_lines :> JNum(100)),
      JObj(<<"a">> :> JObj(<<"b">> :> JNum(50)) @@ <<"t">> :> JNull),
      JObj(<<>>),
      JNull }

\* the keys that the paths of conditions are made of
PathKeys == { S_type, S_lines, <<"a">>, <<"b">>, <<"x">> }

\* FilterOp
FilterOps == {"eq", "ne", "gt", "gte", "lt", "lte", "in", "not_in",
              "contains", "starts_with", "ends_with", "exists"}

\* the comparison values of conditions
ConditionValues ==
    { JNull, JBool(TRUE), JNum(50), JStr(S_code), JStr(<<>>),
      JArr(<<JStr(S_code), JNum(50)>>), JArr(<<>>) }

\* MetadataFilter::parse on the text of some conditions and separators,
\* then matches on a passage's metadata
FParse(conds, seps, metadata) ==
    /\ wpc = "idle" /\ call.op = "none"
    /\ LET text   == JoinWith(conds, seps)
           parsed == Parse(text)
       IN call' = [op |-> "parse", ok |-> parsed.some, conds |-> conds, seps |-> seps,
                   text |-> text, parsed |-> parsed, metadata |-> metadata,
                   matches |-> IF parsed.some THEN Matches(parsed.v, metadata) ELSE FALSE]
    /\ UNCHANGED <<disk, wpc, w, hist>>

\* FilterCondition::matches of a condition on the field of a dotted path
FCond(parts, op, value, metadata) ==
    /\ wpc = "idle" /\ call.op = "none"
    /\ LET cond == [field |-> JoinWith(parts, [i \in 1..(Len(parts) - 1) |-> <<".">>]),
                    op |-> op, value |-> value]
       IN call' = [op |-> "cond", ok |-> TRUE, parts |-> parts, cond |-> cond,
                   metadata |-> metadata, matches |-> ConditionMatches(cond, metadata)]
    /\ UNCHANGED <<disk, wpc, w, hist>>

\* the caller takes the answer
FReturn ==
    /\ call.op \in {"parse", "cond"}
    /\ call' = [op |-> "none", ok |-> TRUE]
    /\ UNCHANGED <<disk, wpc, w, hist>>

NextFilter ==
    \/ /\ call.op = "none"
       /\ \E conds \in SeqsUpTo(SingleConditions, MaxConds) \ {<<>>},
             metadata \in Metadatas :
             \E seps \in [1..(Len(conds) - 1) -> AndSeparators] :
                FParse(conds, seps, metadata)
    \/ /\ call.op = "none"
       /\ \E parts \in SeqsUpTo(PathKeys, 2) \ {<<>>}, op \in FilterOps,
             value \in ConditionValues, metadata \in Metadatas :
             FCond(parts, op, value, metadata)
    \/ FReturn

SpecFilter == Init /\ [][NextFilter]_vars

\* C22: a filter string of conditions separated by commas and ' AND ', in
\* any mixture, parses to the AND of these conditions in order, and matches
\* exactly the metadata that every one of them matches
C22_AndOfSeparated ==
    (call.op = "parse" /\ Len(call.conds) > 1) =>
        /\ call.parsed.some
        /\ call.parsed.v = [kind |-> "and",
                            and  |-> [i \in 1..Len(call.conds) |->
                                         ParseSingle(call.conds[i]).v]]
        /\ call.matches = \A i \in 1..Len(call.conds) :
                             Matches(ParseSingle(call.conds[i]).v, call.metadata)

RECURSIVE Resolves(_, _)
\* every key of the path is a key of the object reached so far
Resolves(metadata, parts) ==
    \/ parts = <<>>
    \/ /\ metadata.kind = "obj"
       /\ Head(parts) \in DOMAIN metadata.fields
       /\ Resolves(metadata.fields[Head(parts)], Tail(parts))

\* C23: on metadata in which the field of a condition does not resolve,
\* the condition is true for != and not_in and false for every other
\* operator, whatever its comparison value
C23_MissingField ==
    (call.op = "cond" /\ ~Resolves(call.metadata, call.parts)) =>
        call.matches = (call.cond.op \in {"ne", "not_in"})

\* not_in with a value that is no array, on a dotted path whose first key
\* resolves and whose second does not
C23_Witness ==
    /\ call.op = "cond" /\ call.cond.op = "not_in" /\ call.cond.value = JNum(50)
    /\ call.parts = <<(<<"a">>), (<<"x">>)>>
    /\ Resolves(call.metadata, <<(<<"a">>)>>)
    /\ ~Resolves(call.metadata, call.parts)
    /\ call.matches

----------------------------------------------------------------------------
(* Bm25Scorer called directly: build, score_query and search               *)

\* documents of one corpus
MaxBmDocs == 3
\* the number of documents from which on the idf of a token that every
\* document holds is 0 in f32: 2^23
ManyDocs == 8388608

\* the texts of documents
Bm25Texts == {"", "a", "bb", "cc", "bb bb", "bb cc", "bb, a"}

\* the texts of queries: in each, at most one token is in a document
Bm25Queries == {"", "a", "bb", "BB", "zz", "zz bb", "bb bb"}

\* Bm25Scorer::build, then score_query
BScore(documents, query) ==
    /\ call.op = "none"
    /\ call' = [op |-> "score", ok |-> TRUE, documents |-> documents, query |-> query,
                scores |-> ScoreQuery(Bm25Build(documents), query)]
    /\ UNCHANGED <<disk, wpc, w, hist>>

\* score_query, the score that a token held by df of num_docs documents
\* gives a document of doc_len tokens that holds it tf times
BComponent(num_docs, df, tf, doc_len, total_len) ==
    /\ call.op = "none"
    /\ df <= num_docs /\ tf <= doc_len
    /\ total_len >= doc_len + df - 1
    /\ call' = [op |-> "component", ok |-> TRUE, num_docs |-> num_docs, df |-> df,
                tf |-> tf, doc_len |-> doc_len, total_len |-> total_len,
                score |-> ScoreComponent(num_docs, df, tf, doc_len, total_len)]
    /\ UNCHANGED <<disk, wpc, w, hist>>

\* Bm25Scorer::build, then search
BSearch(documents, query, top_k) ==
    /\ call.op = "none"
    /\ call' = [op |-> "bm25_search", ok |-> TRUE, documents |-> documents,
                query |-> query, top_k |-> top_k,
                results |-> Bm25Search(Bm25Build(documents), query, top_k)]
    /\ UNCHANGED <<disk, wpc, w, hist>>

\* the caller takes the answer
BReturn ==
    /\ call.op \in {"score", "component", "bm25_search"}
    /\ call' = [op |-> "none", ok |-> TRUE]
    /\ UNCHANGED <<disk, wpc, w, hist>>

NextBm25 ==
    \/ /\ call.op = "none"
       /\ \E documents \in SeqsUpTo(Bm25Texts, MaxBmDocs), query \in Bm25Queries :
             BScore(documents, query)
    \/ /\ call.op = "none"
       /\ \E num_docs \in {1, 2, MaxBmDocs, ManyDocs - 1, ManyDocs} :
          \E df \in {1, 2, num_docs - 1, num_docs} \cap 1..num_docs,
             tf \in 1..2, doc_len \in 1..MaxBmDocs :
          \E total_len \in {doc_len + df - 1, doc_len + num_docs} :
             BComponent(num_docs, df, tf, doc_len, total_len)
    \/ /\ call.op = "none"
       /\ \E documents \in SeqsUpTo(Bm25Texts, MaxBmDocs), query \in Bm25Queries,
             top_k \in 0..MaxBmDocs :
             BSearch(documents, query, top_k)
    \/ BReturn

SpecBm25 == Init /\ [][NextBm25]_vars

\* the document holds a token of the query
HoldsQueryToken(document, query) ==
    \E i \in 1..Len(Tokenize(document)), k \in 1..Len(Tokenize(query)) :
        Tokenize(document)[i] = Tokenize(query)[k]

\* every score is at least 0, it is 0 for a document that holds no token of
\* the query and above 0 for one that holds one, and the token zz, which
\* no document holds, adds nothing to the scores of the token bb
ScoresSigned ==
    call.op = "score" =>
        /\ \A i \in 1..Len(call.documents) :
              /\ call.scores[i].num >= 0 /\ call.scores[i].den > 0
              /\ ~HoldsQueryToken(call.documents[i], call.query) => call.scores[i].num = 0
              /\ HoldsQueryToken(call.documents[i], call.query) => call.scores[i].num > 0
        /\ call.query = "zz bb" =>
              call.scores = ScoreQuery(Bm25Build(call.documents), "bb")

\* C24 as stated: scores are at least 0, 0 without a query token and above
\* 0 with one, for every corpus: also the score a token gives a document
\* that holds it is above 0 whatever the number of documents
C24_ScoreSigns ==
    /\ ScoresSigned
    /\ call.op = "component" => call.score.num > 0

\* C24, amended: the same, the score a token gives a document that holds it
\* being above 0 in a corpus of fewer than 2^23 documents
C24_ScoreSignsBelowManyDocs ==
    /\ ScoresSigned
    /\ (call.op = "component" /\ 2 * call.num_docs < F32Mantissa) => call.score.num > 0

\* a query with a token that no document holds, on a corpus in which one
\* document holds the other token twice and one does not hold it
C24_Witness ==
    /\ call.op = "score" /\ call.query = "zz bb"
    /\ Len(call.documents) = 3
    /\ call.documents[1] = "bb bb" /\ call.scores[1].num > 0
    /\ call.documents[2] = "cc" /\ call.scores[2].num = 0

\* result a comes before result b: higher score, or equal score and lower
\* document index
Before(a, b) ==
    \/ FracLess(b.score, a.score)
    \/ ~FracLess(a.score, b.score) /\ a.idx < b.idx

\* C25: search returns at most top_k pairs, all of a score above 0, in the
\* order of falling score and, at equal score, rising document index, and
\* they are the first top_k of the documents of positive score in that
\* order
C25_SearchTopK ==
    call.op = "bm25_search" =>
        LET scores   == ScoreQuery(Bm25Build(call.documents), call.query)
            positive == {[idx |-> i - 1, score |-> scores[i]] :
                            i \in {i \in 1..Len(scores) : scores[i].num > 0}}
            returned == {call.results[k] : k \in 1..Len(call.results)}
        IN /\ Len(call.results) = (IF Cardinality(positive) < call.top_k
                                   THEN Cardinality(positive) ELSE call.top_k)
           /\ returned \subseteq positive
           /\ \A k \in 1..(Len(call.results) - 1) :
                 Before(call.results[k], call.results[k + 1])
           /\ \A a \in returned, b \in positive \ returned : Before(a, b)

\* a search whose results hold two documents of equal score after one of
\* higher score, and leave out a document of positive score
C25_Witness ==
    /\ call.op = "bm25_search" /\ call.top_k = 2
    /\ Len(call.results) = 2
    /\ Len(call.documents) = 3
    /\ call.results[1].idx = 1
    /\ call.results[2].idx = 0
    /\ \E i \in 1..3 : i # 1 /\ i # 2 /\ HoldsQueryToken(call.documents[i], call.query)

----------------------------------------------------------------------------
(* Query expansion on the search path                                      *)

\* str::split_whitespace
SplitWhitespace(text) == IF text = "bb, a" THEN <<"bb,", "a">> ELSE Words[text]

\* should_expand
ShouldExpand(query) == Len(SplitWhitespace(query)) <= 3

\* extract_key_terms, the stopwords among the words of the texts
Stopwords == {"a", "the"}

\* is_code_like, the keywords among the words of the texts
CodeKeywords == {"fn"}

\* the sequences that hold each element of S once
Orders(S) ==
    {s \in [1..Cardinality(S) -> S] : \A i, j \in 1..Cardinality(S) : i # j => s[i] # s[j]}

\* extract_key_terms: the words of four characters and more that are neither
\* stopwords nor keywords, the most frequent first, in each order that the
\* hash map may leave terms of equal frequency in
ExtractKeyTerms(words, max_terms) ==
    LET lower == [i \in 1..Len(words) |-> Lower(words[i])] \o <<>>
        terms == {lower[i] : i \in {i \in 1..Len(lower) :
                     /\ Len(lower[i]) >= 4
                     /\ lower[i] \notin Stopwords
                     /\ lower[i] \notin CodeKeywords}}
    IN {Take(s, max_terms) : s \in {s \in Orders(terms) :
            \A i \in 1..(Len(s) - 1) : Count(lower, s[i]) >= Count(lower, s[i + 1])}}

\* extract_code_symbols: the names of three characters and more that
\* follow fn
ExtractCodeSymbols(words, max_symbols) ==
    LET names == {words[i + 1] : i \in {i \in 1..(Len(words) - 1) :
                     words[i] = "fn" /\ Len(words[i + 1]) >= 3}}
    IN {Take(s, max_symbols) : s \in {s \in Orders(names) :
            \A i \in 1..(Len(s) - 1) : Count(words, s[i]) >= Count(words, s[i + 1])}}

RECURSIVE Join(_)
\* join(" ")
Join(terms) ==
    IF Len(terms) = 0 THEN ""
    ELSE IF Len(terms) = 1 THEN terms[1]
    ELSE terms[1] \o " " \o Join(Tail(terms))

RECURSIVE Flatten(_)
\* the words of the texts joined by a space
Flatten(texts) == IF Len(texts) = 0 THEN <<>> ELSE Words[Head(texts)] \o Flatten(Tail(texts))

RECURSIVE PushNew(_, _)
\* the symbols that are not among the key terms pushed after them
PushNew(key_terms, symbols) ==
    IF Len(symbols) = 0 THEN key_terms
    ELSE PushNew(IF \E i \in 1..Len(key_terms) : key_terms[i] = Lower(Head(symbols))
                 THEN key_terms ELSE Append(key_terms, Head(symbols)),
                 Tail(symbols))

\* expand_from_passages: the queries it may return
ExpandFromPassages(query, passage_texts, max_expansion_terms) ==
    IF Len(passage_texts) = 0 THEN {query}
    ELSE LET combined    == Flatten(passage_texts)
             query_words == {Lower(SplitWhitespace(query)[i]) :
                                i \in 1..Len(SplitWhitespace(query))}
         IN {LET new_terms == Take(SelectSeq(PushNew(key_terms, symbols),
                                             LAMBDA t : Lower(t) \notin query_words),
                                   max_expansion_terms)
             IN IF Len(new_terms) = 0 THEN query
                ELSE query \o " " \o Join(new_terms) :
                key_terms \in ExtractKeyTerms(combined, max_expansion_terms),
                symbols \in ExtractCodeSymbols(combined, max_expansion_terms)}

\* IndexSearcher::bm25_search on an index of these texts: the texts of the
\* best matches
Bm25SearchTexts(documents, query, top_k) ==
    LET results == Bm25Search(Bm25Build(documents), query, top_k)
    IN [k \in 1..Len(results) |-> documents[results[k].idx + 1]] \o <<>>

\* search::run, the queries it may embed and hand to the hybrid pass
SearchQueries(documents, query, expand) ==
    IF expand /\ ShouldExpand(query)
    THEN LET bm25_texts == Bm25SearchTexts(documents, query, 5)
         IN IF Len(bm25_texts) > 0 THEN ExpandFromPassages(query, bm25_texts, 5)
            ELSE {query}
    ELSE {query}

\* passages of one index
MaxExpandDocs == 2

\* the texts of passages
ExpandTexts == {"the", "bb", "the data", "the data graph", "the fn run"}

\* the texts of queries
ExpandQueries == {"", "a", "the", "the a", "the the the the", "data", "the data"}

\* search::run up to the query that is embedded
XExpand(documents, query, expand) ==
    /\ call.op = "none"
    /\ \E search_query \in SearchQueries(documents, query, expand) :
          call' = [op |-> "expand", ok |-> TRUE, documents |-> documents,
                   query |-> query, expand |-> expand, search_query |-> search_query]
    /\ UNCHANGED <<disk, wpc, w, hist>>

\* the query is embedded
XReturn ==
    /\ call.op = "expand"
    /\ call' = [op |-> "none", ok |-> TRUE]
    /\ UNCHANGED <<disk, wpc, w, hist>>

NextExpand ==
    \/ /\ call.op = "none"
       /\ \E documents \in SeqsUpTo(ExpandTexts, MaxExpandDocs), query \in ExpandQueries,
             expand \in BOOLEAN :
             XExpand(documents, query, expand)
    \/ XReturn

SpecExpand == Init /\ [][NextExpand]_vars

\* the query has words, and they are all stopwords
OnlyStopwords(query) ==
    /\ Len(SplitWhitespace(query)) > 0
    /\ \A i \in 1..Len(SplitWhitespace(query)) : Lower(SplitWhitespace(query)[i]) \in Stopwords

\* C26: a query that consists only of stopwords is embedded, and handed to
\* the hybrid pass, as it is, whatever passages the index holds
C26_StopwordsUnexpanded ==
    (call.op = "expand" /\ OnlyStopwords(call.query)) => call.search_query = call.query

----------------------------------------------------------------------------
(* bm25::hybrid_rerank called directly, for every weight and BM25 vector   *)

FracAdd(a, b) == Reduced(a.num * b.den + b.num * a.den, a.den * b.den)
FracMul(a, b) == Reduced(a.num * b.num, a.den * b.den)

\* an f32 that is a number, negative infinity or NaN
Finite(f) == [kind |-> "num", num |-> f.num, den |-> f.den]
NegInfinity == [kind |-> "neg_infinity", num |-> 0, den |-> 1]
NaN == [kind |-> "nan", num |-> 0, den |-> 1]

\* bm25::hybrid_rerank with the combined scores as f32 give them. With no
\* BM25 score min_bm25 is infinity, the range 1e-6 and norm_bm25 negative
\* infinity: each combined score is negative infinity, or NaN for alpha = 1
\* (0.0 times negative infinity), all compare equal and the stable sort
\* keeps the order
HybridRerankScores(vector_results, bm25_scores, alpha) ==
    IF Len(vector_results) = 0 THEN <<>>
    ELSE IF Len(bm25_scores) = 0
    THEN [i \in 1..Len(vector_results) |->
             [idx   |-> vector_results[i].idx,
              score |-> IF alpha = Frac(1, 1) THEN NaN ELSE NegInfinity]] \o <<>>
    ELSE LET vs         == [i \in 1..Len(vector_results) |-> vector_results[i].score] \o <<>>
             min_vector == MinScore(vs)
             max_vector == MaxScore(vs)
             min_bm25   == MinScore(bm25_scores)
             max_bm25   == MaxScore(bm25_scores)
             combined   == SortDesc([i \in 1..Len(vector_results) |->
                 LET norm_vec  == Normalized(vector_results[i].score, min_vector, max_vector)
                     bm25      == IF vector_results[i].idx < Len(bm25_scores)
                                  THEN bm25_scores[vector_results[i].idx + 1]
                                  ELSE Frac(0, 1)
                     norm_bm25 == Normalized(bm25, min_bm25, max_bm25)
                 IN [idx   |-> vector_results[i].idx,
                     score |-> FracAdd(FracMul(alpha, norm_vec),
                                       FracMul(FracSub(Frac(1, 1), alpha), norm_bm25))]] \o <<>>)
         IN [i \in 1..Len(combined) |->
                [idx |-> combined[i].idx, score |-> Finite(combined[i].score)]] \o <<>>

\* candidates of one call, and BM25 scores of one call
MaxCandidates == 2
MaxBm25Scores == 2

\* the labels of candidates: the last one is outside every BM25 vector
CandidateLabels == 0..MaxBm25Scores

\* the scores of candidates and of documents
ScoreValues == {Frac(0, 1), Frac(1, 2), Frac(1, 1)}

\* the weights of the vector score
Alphas == {Frac(0, 1), Frac(1, 2), Frac(1, 1)}

\* hybrid_rerank
HRerank(vector_results, bm25_scores, alpha) ==
    /\ call.op = "none"
    /\ call' = [op |-> "hybrid_rerank", ok |-> TRUE, vector_results |-> vector_results,
                bm25_scores |-> bm25_scores, alpha |-> alpha,
                results |-> HybridRerankScores(vector_results, bm25_scores, alpha)]
    /\ UNCHANGED <<disk, wpc, w, hist>>

\* the caller takes the answer
HReturn ==
    /\ call.op = "hybrid_rerank"
    /\ call' = [op |-> "none", ok |-> TRUE]
    /\ UNCHANGED <<disk, wpc, w, hist>>

NextHybrid ==
    \/ /\ call.op = "none"
       /\ \E vector_results \in SeqsUpTo([idx : CandidateLabels, score : ScoreValues],
                                        MaxCandidates),
             bm25_scores \in SeqsUpTo(ScoreValues, MaxBm25Scores), alpha \in Alphas :
             HRerank(vector_results, bm25_scores, alpha)
    \/ HReturn

SpecHybrid == Init /\ [][NextHybrid]_vars

\* C27: hybrid_rerank returns one entry for each candidate, each combined
\* score is a number of [0, 1], and the entries are in the order of falling
\* combined score, also for labels outside the BM25 vector and for an empty
\* BM25 vector
C27_RerankInUnitRange ==
    call.op = "hybrid_rerank" =>
        /\ Len(call.results) = Len(call.vector_results)
        /\ \A label \in CandidateLabels :
              Cardinality({i \in 1..Len(call.results) : call.results[i].idx = label})
                  = Cardinality({i \in 1..Len(call.vector_results) :
                                    call.vector_results[i].idx = label})
        /\ \A i \in 1..Len(call.results) :
              /\ call.results[i].score.kind = "num"
              /\ call.results[i].score.num >= 0
              /\ call.results[i].score.num <= call.results[i].score.den
        /\ \A i \in 1..(Len(call.results) - 1) :
              ~FracLess(call.results[i].score, call.results[i + 1].score)

----------------------------------------------------------------------------
(* The chunkers: SimpleChunker::chunk and the line-wise splitting of       *)
(* CodeChunker::blocks_to_chunks, one loop iteration a step                *)

\* characters of one text, tokens of one chunk, tokens of one overlap
MaxTextLen == 6
MaxChunkSize == 2
MaxChunkOverlap == 2
\* iterations of a loop that are followed
MaxIterations == 8
\* lines of one block
MaxLines == 3

\* the characters of texts
TextChars == {" ", "a"}

\* the last whitespace of text[start..end], or end: positions count from 0
ChunkEnd(text, start, end) ==
    IF end < Len(text)
    THEN LET found == {pos \in start..(end - 1) : text[pos + 1] = " "}
         IN IF found = {} THEN end ELSE CHOOSE pos \in found : \A q \in found : q <= pos
    ELSE end

\* SimpleChunker::chunk up to the loop: a text of at most chunk_size * 4
\* characters is one chunk
SimpleChunkCall(text, chunk_size, chunk_overlap) ==
    [op |-> "chunk", ok |-> TRUE, text |-> text, chunk_size |-> chunk_size,
     chunk_overlap |-> chunk_overlap, start |-> 0, iterations |-> 0,
     chunks |-> IF Len(text) <= chunk_size * 4 THEN <<text>> ELSE <<>>,
     done |-> Len(text) <= chunk_size * 4]

\* one iteration of the loop of SimpleChunker::chunk
SimpleChunkIterate(c) ==
    LET char_chunk_size == c.chunk_size * 4
        char_overlap    == c.chunk_overlap * 4
        end        == IF c.start + char_chunk_size < Len(c.text)
                      THEN c.start + char_chunk_size ELSE Len(c.text)
        chunk_end  == ChunkEnd(c.text, c.start, end)
        chunk_text == Trim(SubSeq(c.text, c.start + 1, chunk_end))
        start      == IF chunk_end > c.start + char_overlap
                      THEN chunk_end - char_overlap ELSE chunk_end
    IN [c EXCEPT !.chunks = IF chunk_text # <<>> THEN Append(@, chunk_text) ELSE @,
                 !.start = start,
                 !.iterations = @ + 1,
                 !.done = start >= Len(c.text) \/ chunk_end >= Len(c.text)]

\* the lengths of lines
LineLengths == {1, 3, 8}

\* the chunk_overlap of a CodeChunker: 0, 1 and 2 lines of 80 characters
CodeOverlaps == {0, 20, 40}

\* the length of the content of a block of these lines
ContentLen(lines) == Sum([i \in 1..Len(lines) |-> lines[i] + 1] \o <<>>, Len(lines)) - 1

RECURSIVE TakeLines(_, _, _, _)
\* the inner loop of blocks_to_chunks: the line index it stops at
TakeLines(lines, line_idx, chunk_len, char_limit) ==
    IF line_idx < Len(lines) /\ chunk_len < char_limit
    THEN TakeLines(lines, line_idx + 1, chunk_len + lines[line_idx + 1] + 1, char_limit)
    ELSE line_idx

\* blocks_to_chunks on one block up to the loop: a block of at most
\* max_chunk_size * 4 characters is one chunk
SplitCall(lines, max_chunk_size, chunk_overlap) ==
    [op |-> "split", ok |-> TRUE, lines |-> lines, max_chunk_size |-> max_chunk_size,
     chunk_overlap |-> chunk_overlap, line_idx |-> 0, iterations |-> 0,
     chunks |-> IF ContentLen(lines) <= max_chunk_size * 4 THEN <<[from |-> 0, to |-> Len(lines)]>>
                ELSE <<>>,
     done |-> ContentLen(lines) <= max_chunk_size * 4]

\* one iteration of the outer loop of the line-wise splitting: a chunk is
\* lines[from..to]
SplitIterate(c) ==
    LET char_limit    == c.max_chunk_size * 4
        taken         == TakeLines(c.lines, c.line_idx, 0, char_limit)
        overlap_lines == (c.chunk_overlap * 4) \div 80
        line_idx      == IF taken > overlap_lines THEN taken - overlap_lines ELSE 0
    IN [c EXCEPT !.chunks = IF taken > c.line_idx
                            THEN Append(@, [from |-> c.line_idx, to |-> taken]) ELSE @,
                 !.line_idx = line_idx,
                 !.iterations = @ + 1,
                 !.done = line_idx >= Len(c.lines)]

\* SimpleChunker::chunk is called
KChunk(text, chunk_size, chunk_overlap) ==
    /\ call.op = "none"
    /\ call' = SimpleChunkCall(text, chunk_size, chunk_overlap)
    /\ UNCHANGED <<disk, wpc, w, hist>>

\* its loop runs once
KChunkIterate ==
    /\ call.op = "chunk" /\ ~call.done
    /\ call.iterations < MaxIterations
    /\ call' = SimpleChunkIterate(call)
    /\ UNCHANGED <<disk, wpc, w, hist>>

\* blocks_to_chunks comes to a block
KSplit(lines, max_chunk_size, chunk_overlap) ==
    /\ call.op = "none"
    /\ call' = SplitCall(lines, max_chunk_size, chunk_overlap)
    /\ UNCHANGED <<disk, wpc, w, hist>>

\* its loop over the lines of the block runs once
KSplitIterate ==
    /\ call.op = "split" /\ ~call.done
    /\ call.iterations < MaxIterations
    /\ call' = SplitIterate(call)
    /\ UNCHANGED <<disk, wpc, w, hist>>

\* the chunks are returned
KReturn ==
    /\ call.op \in {"chunk", "split"} /\ call.done
    /\ call' = [op |-> "none", ok |-> TRUE]
    /\ UNCHANGED <<disk, wpc, w, hist>>

NextChunk ==
    \/ /\ call.op = "none"
       /\ \E text \in SeqsUpTo(TextChars, MaxTextLen), chunk_size \in 1..MaxChunkSize,
             chunk_overlap \in 0..MaxChunkOverlap :
             KChunk(text, chunk_size, chunk_overlap)
    \/ KChunkIterate
    \/ /\ call.op = "none"
       /\ \E lines \in SeqsUpTo(LineLengths, MaxLines), max_chunk_size \in 1..MaxChunkSize,
             chunk_overlap \in CodeOverlaps :
             KSplit(lines, max_chunk_size, chunk_overlap)
    \/ KSplitIterate
    \/ KReturn

SpecChunk == Init /\ [][NextChunk]_vars

\* C28: each iteration of the loop of SimpleChunker::chunk moves start
\* forward or leaves the loop
C28_StartAdvances ==
    [][(call.op = "chunk" /\ ~call.done /\ call'.op = "chunk") =>
          (call'.start > call.start \/ call'.done)]_vars

\* C29: each iteration of the line-wise splitting moves the line cursor
\* forward or leaves the loop
C29_CursorAdvances ==
    [][(call.op = "split" /\ ~call.done /\ call'.op = "split") =>
          (call'.line_idx > call.line_idx \/ call'.done)]_vars

====
